---- MODULE Spec2Model ----
(***************************************************************************)
(* Process / port orchestration of Lowkey-Llama.                           *)
(*                                                                         *)
(* One run of one startup entry point is modelled:                         *)
(*   "orch"     core/orchestrator.py  main() + SystemOrchestrator          *)
(*   "sm"       core/services.py      ServiceManager.start_all_services    *)
(*   "launcher" launcher.py           ServiceLauncher.launch               *)
(*   "sysinit"  core/launcher.py      SystemInit.run_initialization        *)
(* together with the operating system state the code inspects and changes: *)
(* which process occupies which port, and which processes of the run are   *)
(* alive.                                                                  *)
(***************************************************************************)
EXTENDS Integers, Sequences, FiniteSets, TLC

(***************************************************************************)
(* Program constants.                                                      *)
(***************************************************************************)
OllamaPort == 11434
DefaultApiPort == 8000
DefaultUiPort == 8501
StreamlitPort == 8501
ApiFallbackPorts == <<8001, 8002, 8003, 8004, 8005>>
UiFallbackPorts == <<8502, 8503, 8504, 8505>>
MaxStartRetries == 3
KillAttempts == 3
PythonNames == {"python.exe", "pythonw.exe", "python3.exe", "python3.13.exe"}

(***************************************************************************)
(* Bounds of the model.                                                    *)
(***************************************************************************)
\* polls of one health-wait window (the code polls once a second for 30 s)
PollBudget == 2
\* steps the pending coroutine takes between the shutdown signal and its cancellation
MaxLateSteps == 2

NoPort == 0
Services == {"ollama", "api", "ui"}
StartOrder == <<"ollama", "api", "ui">>
Entries == {"orch", "sm", "launcher", "sysinit"}

RECURSIVE SeqToSet(_)
SeqToSet(s) == IF s = <<>> THEN {} ELSE {Head(s)} \cup SeqToSet(Tail(s))

Ports == {OllamaPort, DefaultApiPort, DefaultUiPort, StreamlitPort}
           \cup SeqToSet(ApiFallbackPorts) \cup SeqToSet(UiFallbackPorts)

\* What a foreign (not spawned by this run) occupant of a port does when signalled:
\*   py_soft   image python.exe, exits on a graceful stop
\*   py_hard   image python.exe, ignores a graceful stop, exits on a forced kill
\*   py_stuck  image python.exe, survives both (e.g. access denied)
\*   other     any other image name; ignores a graceful stop, exits on a forced kill
\*   zombie    connection-table entry whose PID the process table cannot resolve
ForeignKinds == {"py_soft", "py_hard", "py_stuck", "other", "zombie"}
\* ollama_ext: an Ollama instance that was running before the run
Occupants == {"free", "ollama_ext"} \cup ForeignKinds \cup Services

\* Processes of other applications that run beside the run, on none of its
\* ports: another Streamlit application, another ollama.exe.
Bystanders == {"streamlit", "ollama.exe"}

\* The process tree of a service: the process the handle points to, a process
\* it spawned, and a process that one spawned.
TreeNodes == {"root", "child", "grandchild"}
NoTree == [svc |-> "none", plat |-> "Windows", alive |-> {}, deaf |-> {}, handle |-> FALSE]

\* The machine: the ports in the excluded port range of the network stack, and
\* whether the owner lookup (netstat) can be performed.
NoHost == [excluded |-> {}, lookup |-> "ok"]

\* Process ids of the connection table the port functions are called on.
NetPids == {1, 2}
\* rows of the connection table explored
MaxRows == 2
\* port-function calls made in a row on one table
MaxCalls == 2
\* stop calls made in a row on one process tree
MaxStops == 2
\* chunks of output an OS pipe holds before a write to it blocks
PipeCapacity == 2
\* chunks of output a child process writes in its life
MaxOutput == 3

\* The stdout pipe of a spawned child: the start function that waits for the
\* child, the chunks the child writes in all and before it listens, the chunks
\* written so far and held by the pipe, and where child and parent are.
NoPipe == [fn |-> "none", need |-> 0, listenAt |-> 0, written |-> 0, fill |-> 0,
           child |-> "none", parent |-> "none", polls |-> 0]

VARIABLES
    entry,      \* the entry point of this run
    pc,         \* position of the startup coroutine / function
    mpc,        \* position of orchestrator.main() around the coroutine
    os,         \* operating system: port occupants, processes of the run
    stubborn,   \* services of the run whose process ignores a graceful stop
    ollamaExt,  \* an Ollama instance that was running before the run is answering
    sysInit,    \* orchestrator.system_init: "none", "failed", "ok"
    cfg,        \* config.ports: [api, ui]
    objs,       \* server objects: api_server / ui_server exist, ports they were built with
    uiHandle,   \* UIServer._process is set (not None, attribute present)
    handles,    \* keys of the processes dict of ServiceManager / ServiceLauncher, in order
    attempt,    \* retry index of the start loop in progress
    polls,      \* polls made in the health-wait window in progress
    after,      \* what initialize() returns once the cleanup in progress ends
    result,     \* return value of the start operation: "none", "true", "false", "cancelled"
    steps,      \* outcome of each initialize() step: "none", "ok", "false", "raise"
    gate,       \* outcome of each service's health gate
    spawnLog,   \* services in the order their first process was spawned
    termLog,    \* services in the order termination was invoked on them
    sigLog,     \* stop / kill signals sent, in order
    swept,      \* ports visited by a shutdown port sweep
    cleanups,   \* number of completed cleanup() calls
    lastError,  \* the last error surfaced to the operator: [msg, ports]
    signalled,  \* pc of the coroutine when the shutdown signal arrived ("" = no signal)
    late,       \* steps the coroutine has taken since the shutdown signal
    net,        \* the connection table of the port functions called on their own
    tasks,      \* the process table that goes with net: pid -> kind of process
    calls,      \* port-function calls made on net, in order: [fn, port, ret, victim]
    tree,       \* the process tree a stop function is called on: [svc, plat, alive, deaf, handle]
    stops,      \* stop functions called on tree, in order
    host,       \* the machine of the port functions: [excluded, lookup]
    pipe        \* the stdout pipe between a start function and the child it spawned

vars == <<entry, pc, mpc, os, stubborn, ollamaExt, sysInit, cfg, objs, uiHandle, handles,
          attempt, polls, after, result, steps, gate, spawnLog, termLog, sigLog,
          swept, cleanups, lastError, signalled, late, net, tasks, calls, tree, stops,
          host, pipe>>
\* The variables of a run of an entry point.
runVars == <<entry, pc, mpc, os, stubborn, ollamaExt, sysInit, cfg, objs, uiHandle, handles,
             attempt, polls, after, result, steps, gate, spawnLog, termLog, sigLog,
             swept, cleanups, lastError, signalled, late>>

(***************************************************************************)
(* Operating system helpers.                                               *)
(***************************************************************************)
Sig(t, p, k) == [tgt |-> t, port |-> p, kind |-> k]
\* The element of a one-element set: {F(x) : x \in {e}} computes e once,
\* however often F uses it.
The(S) == CHOOSE x \in S : TRUE

\* The image name the process table reports for the occupant of a port.
ImageName(o) ==
    CASE o = "free" -> "none"
      [] o \in {"py_soft", "py_hard", "py_stuck", "api", "ui"} -> "python.exe"
      [] o \in {"ollama", "ollama_ext"} -> "ollama.exe"
      [] o = "zombie" -> "ZOMBIE"
      [] OTHER -> "other.exe"

\* config_dir.mkdir: the directory temp/streamlit_<pid> of the run exists.
MakeTempDir(w) == [w EXCEPT !.temp = TRUE]
\* shutil.rmtree of every temp/streamlit_* directory.
RemoveTempDirs(w) == [w EXCEPT !.temp = FALSE]

\* A process of the run spawned for service s; it binds port p when p is free.
SpawnProc(w, s, p) ==
    LET lost == IF w.proc[s] = "up" THEN 1 ELSE 0
        binds == w.occ[p] = "free"
    IN  [w EXCEPT !.proc[s] = "up",
                  !.orphans[s] = @ + lost,
                  !.bound[s] = IF binds THEN p ELSE NoPort,
                  !.occ = IF binds THEN [w.occ EXCEPT ![p] = s] ELSE w.occ]

\* The process the run holds a handle to for service s exits.
ExitProc(w, s) ==
    IF w.proc[s] # "up" THEN w
    ELSE [w EXCEPT !.proc[s] = "dead",
                   !.bound[s] = NoPort,
                   !.occ = IF w.bound[s] # NoPort
                           THEN [w.occ EXCEPT ![w.bound[s]] = "free"] ELSE w.occ]

\* The process occupying port p exits (whoever it is).
ExitOccupant(w, p) ==
    LET o == w.occ[p]
    IN  IF o \in Services
        THEN IF w.bound[o] = p THEN ExitProc(w, o)
             ELSE [w EXCEPT !.occ[p] = "free",
                            !.orphans[o] = IF @ > 0 THEN @ - 1 ELSE 0]
        ELSE [w EXCEPT !.occ[p] = "free"]

DiesOnGraceful(o) == o \in {"py_soft", "ollama_ext"} \/ (o \in Services /\ o \notin stubborn)
DiesOnForce(o) == o \in {"py_soft", "py_hard", "other", "ollama_ext"} \/ o \in Services

(***************************************************************************)
(* SystemOrchestrator: port probe and port reclamation.                    *)
(* Each operator maps a world to [ok, w, sigs]: the return value, the      *)
(* world afterwards and the signals sent on the way.                       *)
(***************************************************************************)
\* _get_process_on_port: the image name of the owner of port p, "none" without one.
GetProcessOnPort(w, p) == ImageName(w.occ[p])

\* One graceful / forced stop of the owner o of port p resolved before the loop.
GracefulStop(w, p, o) == IF DiesOnGraceful(o) /\ w.occ[p] = o THEN ExitOccupant(w, p) ELSE w
ForcedStop(w, p, o) == IF DiesOnForce(o) /\ w.occ[p] = o THEN ExitOccupant(w, p) ELSE w

\* The "normal process killing logic": up to KillAttempts rounds of graceful
\* stop, re-check, forced stop, re-check, on the owner resolved before the loop.
RECURSIVE KillRounds(_, _, _, _, _)
AfterForced(w2, p, o, n, s2) ==
    IF GetProcessOnPort(w2, p) = "none" THEN [ok |-> TRUE, w |-> w2, sigs |-> s2]
    ELSE KillRounds(w2, p, o, n - 1, s2)
AfterGraceful(w1, p, o, n, s1) ==
    IF GetProcessOnPort(w1, p) = "none" THEN [ok |-> TRUE, w |-> w1, sigs |-> s1]
    ELSE The({AfterForced(w2, p, o, n, Append(s1, Sig(o, p, "kill"))) :
                 w2 \in {ForcedStop(w1, p, o)}})
KillRounds(w, p, o, n, sigs) ==
    IF n = 0 THEN [ok |-> FALSE, w |-> w, sigs |-> sigs]
    ELSE The({AfterGraceful(w1, p, o, n, Append(sigs, Sig(o, p, "term"))) :
                 w1 \in {GracefulStop(w, p, o)}})

\* The zombie ladder: every recovery command is run and followed by a re-check.
\* No command of the ladder releases an entry of kind "zombie".
ZombieLadder(w, p) ==
    [ok |-> GetProcessOnPort(w, p) = "none", w |-> w,
     sigs |-> <<Sig("zombie", p, "ladder")>>]

\* _kill_process_on_port
KillProcessOnPort(w, p) ==
    IF GetProcessOnPort(w, p) = "none" THEN [ok |-> TRUE, w |-> w, sigs |-> <<>>]
    ELSE IF GetProcessOnPort(w, p) = "ZOMBIE" THEN ZombieLadder(w, p)
    ELSE KillRounds(w, p, w.occ[p], KillAttempts, <<>>)

\* The bind test that ends _check_port.
BindSucceeds(w, p) == w.occ[p] = "free"
BindTest(r, p) == [ok |-> BindSucceeds(r.w, p), w |-> r.w, sigs |-> r.sigs]

\* A port probe that only runs the bind test and never reclaims the port.
CheckPortBindOnly(w, p) == BindTest([ok |-> TRUE, w |-> w, sigs |-> <<>>], p)

\* _check_port: reclaim the port when its owner is a python process, then bind.
CheckPort(w, p) ==
    The({BindTest(r, p) :
            r \in {IF GetProcessOnPort(w, p) \in PythonNames THEN KillProcessOnPort(w, p)
                   ELSE [ok |-> TRUE, w |-> w, sigs |-> <<>>]}})

\* Port resolution of ensure_api_server / ensure_ui_server: the desired port,
\* then the fallback ports in declared order, stopping at the first available.
RECURSIVE TryPorts(_, _, _, _)
Tried(r, cands, sigs, tried) ==
    IF r.ok
    THEN [ok |-> TRUE, port |-> Head(cands), w |-> r.w,
          sigs |-> sigs \o r.sigs, tried |-> tried \cup {Head(cands)}]
    ELSE TryPorts(r.w, Tail(cands), sigs \o r.sigs, tried \cup {Head(cands)})
TryPorts(w, cands, sigs, tried) ==
    IF cands = <<>>
    THEN [ok |-> FALSE, port |-> NoPort, w |-> w, sigs |-> sigs, tried |-> tried]
    ELSE The({Tried(r, cands, sigs, tried) : r \in {CheckPort(w, Head(cands))}})

\* A resolution that tries the fallback ports before the desired port.
ResolvePortFallbackFirst(w, desired, fallback) ==
    TryPorts(w, fallback \o <<desired>>, <<>>, {})
ResolvePort(w, desired, fallback) == TryPorts(w, <<desired>> \o fallback, <<>>, {})

(***************************************************************************)
(* Initial state: the world before the run, nothing started.               *)
(***************************************************************************)
StepNames == {"Dependencies", "Ollama", "API Server", "UI Server"}
StepOrder == <<"Dependencies", "Ollama", "API Server", "UI Server">>

\* Fallback ports 1..n of a list are held by processes the run cannot reclaim.
Blocked(ports, n, p) == \E i \in 1..n : i <= Len(ports) /\ ports[i] = p

InitOcc(a, nb, u, nu, ext) ==
    [p \in Ports |->
        IF p = DefaultApiPort THEN a
        ELSE IF p = DefaultUiPort THEN u
        ELSE IF p = OllamaPort THEN (IF ext THEN "ollama_ext" ELSE "free")
        ELSE IF Blocked(ApiFallbackPorts, nb, p) \/ Blocked(UiFallbackPorts, nu, p)
             THEN "other"
        ELSE "free"]

\* config.ports.api as config.json holds it before a run: the default, or the
\* fallback port an earlier run of the orchestrator saved with _save_config.
SavedApiPorts == {DefaultApiPort, Head(ApiFallbackPorts)}

\* The environments explored: at most one of the two default ports is taken
\* before the run; of the fallback ports of a taken default port none, the first
\* or all are taken; stubborn processes are explored with every port free;
\* the entry points that stop processes by name run with and without bystanders;
\* the orchestrator runs with and without a temp/streamlit_<pid> directory that
\* an earlier run left behind.
Init ==
    /\ entry \in Entries
    /\ ollamaExt \in BOOLEAN
    /\ stubborn \in {{}, Services}
    /\ \E a \in {"free"} \cup ForeignKinds,
          nb \in {0, 1, Len(ApiFallbackPorts)},
          u \in {"free", "other", "py_hard"},
          nu \in {0, 1, Len(UiFallbackPorts)} :
          /\ (a = "free" => nb = 0) /\ (u # "other" => nu = 0)
          /\ (a # "free" => u = "free")
          /\ (stubborn # {} => a = "free" /\ u = "free" /\ ~ollamaExt)
          /\ (entry # "orch" => nb = 0 /\ nu = 0)
          /\ \E others \in {{}, Bystanders}, stale \in BOOLEAN :
                /\ (entry \notin {"sm", "launcher"} => others = {})
                /\ (stale => entry = "orch" /\ a = "free" /\ u = "free")
                /\ os = [occ |-> InitOcc(a, nb, u, nu, ollamaExt),
                         proc |-> [s \in Services |-> "none"],
                         bound |-> [s \in Services |-> NoPort],
                         orphans |-> [s \in Services |-> 0],
                         others |-> others,
                         temp |-> stale]
    /\ pc = "start"
    /\ mpc = "m_run"
    /\ sysInit = "none"
    /\ \E saved \in SavedApiPorts :
          /\ (entry # "sm" => saved = DefaultApiPort)
          /\ cfg = [api |-> saved, ui |-> DefaultUiPort]
    /\ objs = [api |-> FALSE, apiPort |-> NoPort, ui |-> FALSE, uiApiPort |-> NoPort]
    /\ uiHandle = FALSE
    /\ handles = <<>>
    /\ attempt = 0
    /\ polls = 0
    /\ after = "none"
    /\ result = "none"
    /\ steps = [n \in StepNames |-> "none"]
    /\ gate = [s \in Services |-> "none"]
    /\ spawnLog = <<>>
    /\ termLog = <<>>
    /\ sigLog = <<>>
    /\ swept = {}
    /\ cleanups = 0
    /\ lastError = [msg |-> "", ports |-> {}]
    /\ signalled = ""
    /\ late = 0
    /\ net = <<>>
    /\ tasks = [pid \in NetPids |-> "gone"]
    /\ calls = <<>>
    /\ tree = NoTree
    /\ stops = <<>>
    /\ host = NoHost
    /\ pipe = NoPipe

\* What no step of a run changes: the entry point, the behaviour of the
\* processes around it, and the tables of the port functions called on their own.
portVars == <<net, tasks, calls, tree, stops, host, pipe>>
fixed == <<entry, stubborn, ollamaExt, portVars>>
orchOnly == <<mpc, sysInit, cfg, objs, uiHandle, attempt, polls, after, steps, signalled, late>>

\* The log of first spawns.
Spawned(log, s) == IF s \in SeqToSet(log) THEN log ELSE Append(log, s)

(***************************************************************************)
(* Health probes.                                                          *)
(***************************************************************************)
\* APIServer.health_check as the orchestrator uses it: an API server of the run
\* answers on the port the server object was built with.
ApiProbe(w, ready) == ready /\ w.occ[objs.apiPort] = "api"

\* UIServer.health_check: the process is running and something accepts a
\* connection on the hard-coded Streamlit port.
UiProbe(w, ready) ==
    /\ ~(uiHandle /\ w.proc["ui"] # "up")
    /\ w.occ[StreamlitPort] \notin {"free", "zombie"}
    /\ (w.occ[StreamlitPort] = "ui" => ready)

(***************************************************************************)
(* SystemOrchestrator.initialize: the startup coroutine.                   *)
(***************************************************************************)
\* The coroutine is at position p and the event loop runs it. Between the
\* shutdown signal and the cancellation of pending tasks it runs at most
\* MaxLateSteps steps.
TaskAt(p) ==
    /\ entry = "orch" /\ pc = p
    /\ IF mpc \in {"m_cleanup", "m_cancel"}
       THEN late < MaxLateSteps /\ late' = late + 1
       ELSE late' = late

\* A loop that records the failure of a step and goes on as if it had succeeded.
FailStepGoesOn(name, how) ==
    /\ steps' = [steps EXCEPT ![name] = how]
    /\ pc' = "t_ready"
    /\ after' = after

\* A step of initialize() returned False or raised: cleanup(), then return False.
FailStep(name, how) ==
    /\ steps' = [steps EXCEPT ![name] = how]
    /\ pc' = "t_cleanup"
    /\ after' = "false"

\* A start attempt failed: the next attempt, or give up after MaxStartRetries.
RetryOrFail(name) ==
    IF attempt < MaxStartRetries - 1
    THEN /\ attempt' = attempt + 1
         /\ UNCHANGED <<steps, after>>
    ELSE /\ FailStep(name, "false")
         /\ UNCHANGED attempt

\* _init_system: SystemInit() and its initialize().
InitSystem ==
    /\ TaskAt("start")
    /\ \E ok \in BOOLEAN :
          IF ok THEN /\ sysInit' = "ok" /\ pc' = "t_deps" /\ UNCHANGED after
          ELSE /\ sysInit' = "failed" /\ pc' = "t_cleanup" /\ after' = "false"
    /\ UNCHANGED <<fixed, handles, mpc, os, cfg, objs, uiHandle, attempt, polls, result, steps,
                   gate, spawnLog, termLog, sigLog, swept, cleanups, lastError, signalled>>

EnsureDependencies ==
    /\ TaskAt("t_deps")
    /\ \E ok \in BOOLEAN :
          IF ok THEN /\ steps' = [steps EXCEPT !["Dependencies"] = "ok"]
                     /\ pc' = "t_ollama" /\ UNCHANGED after
          ELSE FailStep("Dependencies", "false")
    /\ UNCHANGED <<fixed, handles, mpc, os, sysInit, cfg, objs, uiHandle, attempt, polls, result,
                   gate, spawnLog, termLog, sigLog, swept, cleanups, lastError, signalled>>

\* ensure_ollama up to OllamaServer.start(): use a running Ollama, or spawn one.
EnsureOllama ==
    /\ TaskAt("t_ollama")
    /\ IF ollamaExt
       THEN /\ pc' = "t_models"
            /\ UNCHANGED <<os, spawnLog, steps, after, gate>>
       ELSE \E found \in BOOLEAN, exited \in BOOLEAN :
              IF ~found
              THEN /\ FailStep("Ollama", "false")
                   /\ UNCHANGED <<os, spawnLog, gate>>
              ELSE /\ spawnLog' = Spawned(spawnLog, "ollama")
                   /\ IF exited
                      THEN /\ os' = ExitProc(SpawnProc(os, "ollama", OllamaPort), "ollama")
                           /\ gate' = [gate EXCEPT !["ollama"] = "PROCESS_DEAD"]
                           /\ FailStep("Ollama", "false")
                      ELSE /\ os' = SpawnProc(os, "ollama", OllamaPort)
                           /\ gate' = [gate EXCEPT !["ollama"] = "waiting"]
                           /\ pc' = "t_ollama_wait"
                           /\ UNCHANGED <<steps, after>>
    /\ UNCHANGED <<fixed, handles, mpc, sysInit, cfg, objs, uiHandle, attempt, polls, result,
                   termLog, sigLog, swept, cleanups, lastError, signalled>>

\* ensure_ollama: the five health checks after the spawn.
OllamaWait ==
    /\ TaskAt("t_ollama_wait")
    /\ \E ready \in BOOLEAN, dies \in BOOLEAN :
          LET w1 == IF dies THEN ExitProc(os, "ollama") ELSE os
          IN  /\ os' = w1
              /\ IF ready /\ w1.occ[OllamaPort] = "ollama"
                 THEN /\ gate' = [gate EXCEPT !["ollama"] = "HEALTHY"]
                      /\ pc' = "t_models"
                      /\ UNCHANGED <<steps, after>>
                 ELSE /\ gate' = [gate EXCEPT !["ollama"] = "TIMEOUT"]
                      /\ FailStep("Ollama", "false")
    /\ UNCHANGED <<fixed, handles, mpc, sysInit, cfg, objs, uiHandle, attempt, polls, result,
                   spawnLog, termLog, sigLog, swept, cleanups, lastError, signalled>>

\* ensure_ollama: default model present (pulled or created) and answering a chat.
OllamaModels ==
    /\ TaskAt("t_models")
    /\ \E ok \in BOOLEAN :
          IF ok THEN /\ steps' = [steps EXCEPT !["Ollama"] = "ok"]
                     /\ pc' = "t_api_ports" /\ UNCHANGED after
          ELSE FailStep("Ollama", "false")
    /\ UNCHANGED <<fixed, handles, mpc, os, sysInit, cfg, objs, uiHandle, attempt, polls, result,
                   gate, spawnLog, termLog, sigLog, swept, cleanups, lastError, signalled>>

\* ensure_api_server: port resolution, config update, APIServer construction.
ApiResolvePort ==
    /\ TaskAt("t_api_ports")
    /\ \E r \in {ResolvePort(os, cfg.api, ApiFallbackPorts)} :
           /\ os' = r.w
           /\ sigLog' = sigLog \o r.sigs
           /\ IF r.ok
              THEN /\ cfg' = [cfg EXCEPT !.api = r.port]
                   /\ objs' = IF objs.api THEN objs
                              ELSE [objs EXCEPT !.api = TRUE, !.apiPort = r.port]
                   /\ pc' = "t_api_start"
                   /\ attempt' = 0
                   /\ UNCHANGED <<steps, after, lastError>>
              ELSE /\ lastError' = [msg |-> "No available ports found", ports |-> {}]
                   /\ FailStep("API Server", "false")
                   /\ UNCHANGED <<cfg, objs, attempt>>
    /\ UNCHANGED <<fixed, handles, mpc, sysInit, uiHandle, polls, result, gate, spawnLog, termLog,
                   swept, cleanups, signalled>>

\* ensure_api_server: api_server.start() of one attempt.
ApiStart ==
    /\ TaskAt("t_api_start")
    /\ \E raises \in BOOLEAN :
          IF raises
          THEN /\ RetryOrFail("API Server")
               /\ IF attempt < MaxStartRetries - 1 THEN UNCHANGED pc ELSE TRUE
               /\ UNCHANGED <<os, spawnLog, gate, polls>>
          ELSE /\ os' = SpawnProc(os, "api", objs.apiPort)
               /\ spawnLog' = Spawned(spawnLog, "api")
               /\ gate' = [gate EXCEPT !["api"] = "waiting"]
               /\ polls' = 0
               /\ pc' = "t_api_wait"
               /\ UNCHANGED <<attempt, steps, after>>
    /\ UNCHANGED <<fixed, handles, mpc, sysInit, cfg, objs, uiHandle, result, termLog, sigLog,
                   swept, cleanups, lastError, signalled>>

\* ensure_api_server: one poll of the health-wait loop; on expiry of the window
\* api_server.stop() and the next attempt, or failure after the last attempt.
ApiPoll ==
    /\ TaskAt("t_api_wait")
    /\ \E ready \in BOOLEAN, dies \in BOOLEAN :
          LET w1 == IF dies THEN ExitProc(os, "api") ELSE os
          IN  /\ os' = w1
              /\ IF ApiProbe(w1, ready)
                 THEN /\ gate' = [gate EXCEPT !["api"] = "HEALTHY"]
                      /\ steps' = [steps EXCEPT !["API Server"] = "ok"]
                      /\ pc' = "t_ui_ports"
                      /\ UNCHANGED <<polls, attempt, after>>
                 ELSE IF polls + 1 < PollBudget
                 THEN /\ polls' = polls + 1
                      /\ UNCHANGED <<gate, steps, pc, attempt, after>>
                 ELSE /\ gate' = [gate EXCEPT !["api"] = "TIMEOUT"]
                      /\ RetryOrFail("API Server")
                      /\ IF attempt < MaxStartRetries - 1
                         THEN pc' = "t_api_start" ELSE TRUE
                      /\ UNCHANGED polls
    /\ UNCHANGED <<fixed, handles, mpc, sysInit, cfg, objs, uiHandle, result, spawnLog, termLog,
                   sigLog, swept, cleanups, lastError, signalled>>

\* ensure_ui_server: port resolution, config update, UIServer construction
\* (the import of core.ui may fail; the handler of that failure raises itself).
UiResolvePort ==
    /\ TaskAt("t_ui_ports")
    /\ \E r \in {ResolvePort(os, cfg.ui, UiFallbackPorts)} :
           /\ os' = r.w
           /\ sigLog' = sigLog \o r.sigs
           /\ IF r.ok
              THEN /\ cfg' = [cfg EXCEPT !.ui = r.port]
                   /\ UNCHANGED lastError
                   /\ \E importFails \in BOOLEAN :
                         IF importFails /\ ~objs.ui
                         THEN /\ FailStep("UI Server", "raise")
                              /\ UNCHANGED <<objs, attempt>>
                         ELSE /\ objs' = IF objs.ui THEN objs
                                         ELSE [objs EXCEPT !.ui = TRUE, !.uiApiPort = cfg.api]
                              /\ pc' = "t_ui_start"
                              /\ attempt' = 0
                              /\ UNCHANGED <<steps, after>>
              ELSE /\ lastError' = [msg |-> "No available ports found for UI server",
                                    ports |-> {}]
                   /\ FailStep("UI Server", "false")
                   /\ UNCHANGED <<cfg, objs, attempt>>
    /\ UNCHANGED <<fixed, handles, mpc, sysInit, uiHandle, polls, result, gate, spawnLog, termLog,
                   swept, cleanups, signalled>>

\* UIServer.start up to the Popen: the config directory is made, the app file
\* must exist, the process is spawned on the hard-coded Streamlit port.
UiStart ==
    /\ TaskAt("t_ui_start")
    /\ \E missing \in BOOLEAN :
          IF missing
          THEN /\ RetryOrFail("UI Server")
               /\ IF attempt < MaxStartRetries - 1 THEN UNCHANGED pc ELSE TRUE
               /\ os' = MakeTempDir(os)
               /\ UNCHANGED <<spawnLog, gate, polls, uiHandle>>
          ELSE /\ os' = SpawnProc(MakeTempDir(os), "ui", StreamlitPort)
               /\ spawnLog' = Spawned(spawnLog, "ui")
               /\ uiHandle' = TRUE
               /\ gate' = [gate EXCEPT !["ui"] = "waiting"]
               /\ polls' = 0
               /\ pc' = "t_ui_inner"
               /\ UNCHANGED <<attempt, steps, after>>
    /\ UNCHANGED <<fixed, handles, mpc, sysInit, cfg, objs, result, termLog, sigLog,
                   swept, cleanups, lastError, signalled>>

\* UIServer.start: one round of its wait loop. A dead process raises; a passed
\* health check returns; at the end of the window communicate() waits for the
\* process to exit.
UiInnerPoll ==
    /\ TaskAt("t_ui_inner")
    /\ \E ready \in BOOLEAN, dies \in BOOLEAN :
          LET w1 == IF dies THEN ExitProc(os, "ui") ELSE os
          IN  /\ os' = w1
              /\ IF w1.proc["ui"] # "up"
                 THEN /\ gate' = [gate EXCEPT !["ui"] = "PROCESS_DEAD"]
                      /\ RetryOrFail("UI Server")
                      /\ IF attempt < MaxStartRetries - 1
                         THEN pc' = "t_ui_start" ELSE TRUE
                      /\ UNCHANGED polls
                 ELSE IF UiProbe(w1, ready)
                 THEN /\ polls' = 0
                      /\ pc' = "t_ui_wait"
                      /\ UNCHANGED <<gate, attempt, steps, after>>
                 ELSE IF polls + 1 < PollBudget
                 THEN /\ polls' = polls + 1
                      /\ UNCHANGED <<gate, pc, attempt, steps, after>>
                 ELSE /\ gate' = [gate EXCEPT !["ui"] = "TIMEOUT"]
                      /\ pc' = "t_ui_blocked"
                      /\ UNCHANGED <<polls, attempt, steps, after>>
    /\ UNCHANGED <<fixed, handles, mpc, sysInit, cfg, objs, uiHandle, result, spawnLog, termLog,
                   sigLog, swept, cleanups, lastError, signalled>>

\* UIServer.start after its window expired: communicate() returns once the
\* process has exited by itself; kill() and terminate() then find it dead and
\* TimeoutError reaches the retry loop of ensure_ui_server.
UiTimedOutExit ==
    /\ TaskAt("t_ui_blocked")
    /\ os' = ExitProc(os, "ui")
    /\ RetryOrFail("UI Server")
    /\ IF attempt < MaxStartRetries - 1 THEN pc' = "t_ui_start" ELSE TRUE
    /\ UNCHANGED <<fixed, handles, mpc, sysInit, cfg, objs, uiHandle, polls, result, gate, spawnLog,
                   termLog, sigLog, swept, cleanups, lastError, signalled>>

\* UIServer.stop: kill the process tree when the process is running; h tells
\* whether the server object holds a process handle.
UiStop(w, h) == IF h /\ w.proc["ui"] = "up" THEN ExitProc(w, "ui") ELSE w
UiStopSigs(w, h) ==
    IF h /\ w.proc["ui"] = "up" THEN <<Sig("ui", NoPort, "treekill")>> ELSE <<>>
UiStopHandle(w, h) == IF h /\ w.proc["ui"] = "up" THEN FALSE ELSE h

\* ensure_ui_server: one poll of its health-wait loop; on expiry of the window
\* ui_server.stop() and the next attempt, or failure after the last attempt.
UiPoll ==
    /\ TaskAt("t_ui_wait")
    /\ \E ready \in BOOLEAN, dies \in BOOLEAN :
          LET w1 == IF dies THEN ExitProc(os, "ui") ELSE os
          IN  IF UiProbe(w1, ready)
              THEN /\ os' = w1
                   /\ gate' = [gate EXCEPT !["ui"] = "HEALTHY"]
                   /\ steps' = [steps EXCEPT !["UI Server"] = "ok"]
                   /\ pc' = "t_ready"
                   /\ UNCHANGED <<polls, attempt, after, uiHandle, sigLog>>
              ELSE IF polls + 1 < PollBudget
              THEN /\ os' = w1
                   /\ polls' = polls + 1
                   /\ UNCHANGED <<gate, steps, pc, attempt, after, uiHandle, sigLog>>
              ELSE /\ gate' = [gate EXCEPT !["ui"] = "TIMEOUT"]
                   /\ RetryOrFail("UI Server")
                   /\ IF attempt < MaxStartRetries - 1
                      THEN /\ pc' = "t_ui_start"
                           /\ os' = UiStop(w1, uiHandle)
                           /\ sigLog' = sigLog \o UiStopSigs(w1, uiHandle)
                           /\ uiHandle' = UiStopHandle(w1, uiHandle)
                      ELSE /\ os' = w1
                           /\ UNCHANGED <<uiHandle, sigLog>>
                   /\ UNCHANGED polls
    /\ UNCHANGED <<fixed, handles, mpc, sysInit, cfg, objs, result, spawnLog, termLog,
                   swept, cleanups, lastError, signalled>>

(***************************************************************************)
(* SystemOrchestrator.cleanup.  Its stages map a cleanup state             *)
(* [w, sigs, terms, handle, swept] to the next one: the world, the signals *)
(* sent, the services termination was invoked on, UIServer._process, and   *)
(* the ports the sweep visited.                                            *)
(***************************************************************************)
Term(s, by) == [svc |-> s, by |-> by]

\* cleanup: "if ... ui_server: await ui_server.stop()"
CleanupUi(c, by) ==
    IF sysInit # "none" /\ objs.ui
    THEN [c EXCEPT !.terms = Append(@, Term("ui", by)),
                   !.w = UiStop(c.w, c.handle),
                   !.sigs = @ \o UiStopSigs(c.w, c.handle),
                   !.handle = UiStopHandle(c.w, c.handle)]
    ELSE c

\* cleanup: terminate api_server.process, kill it after the grace period,
\* then api_server.stop().
CleanupApi(c, by) ==
    IF sysInit # "none" /\ objs.api
    THEN LET up == c.w.proc["api"] = "up"
         IN  [c EXCEPT !.terms = Append(@, Term("api", by)),
                       !.w = IF up THEN ExitProc(c.w, "api") ELSE c.w,
                       !.sigs = IF ~up THEN @
                                ELSE IF "api" \in stubborn
                                THEN @ \o <<Sig("api", NoPort, "term"),
                                            Sig("api", NoPort, "kill")>>
                                ELSE Append(@, Sig("api", NoPort, "term"))]
    ELSE c

\* cleanup: one port of the sweep: "if await _check_port(port): await
\* _kill_process_on_port(port)".
Sent(sigs, k) == [w |-> k.w, sigs |-> sigs \o k.sigs]
SweepKill(c, p) ==
    IF c.ok THEN Sent(c.sigs, KillProcessOnPort(c.w, p)) ELSE [w |-> c.w, sigs |-> c.sigs]
SweepPort(w, p) == The({SweepKill(c, p) : c \in {CheckPort(w, p)}})

\* cleanup: the sweep of config.ports.api and config.ports.ui; reading the
\* ports raises when the system configuration was never loaded.
SweepPorts(a, p) == The({Sent(a.sigs, k) : k \in {SweepPort(a.w, p)}})
SweptBy(c, u) ==
    [c EXCEPT !.w = u.w, !.sigs = @ \o u.sigs, !.swept = @ \cup {cfg.api, cfg.ui}]
CleanupSweep(c) ==
    IF sysInit = "ok"
    THEN The({SweptBy(c, The({SweepPorts(a, cfg.ui) : a \in {SweepPort(c.w, cfg.api)}}))})
    ELSE c

\* cleanup: the removal of the temp/streamlit_* directories. It follows the
\* reading of the ports in the same try block: when that reading raises, the
\* handler of the block logs the error and cleanup() returns.
CleanupTemp(c) == IF sysInit = "ok" THEN [c EXCEPT !.w = RemoveTempDirs(c.w)] ELSE c

\* cleanup() as a whole, from the state it starts in to the state it leaves.
CleanupFrom(w, h) == [w |-> w, sigs |-> <<>>, terms |-> <<>>, handle |-> h, swept |-> {}]
CleanupTo(c) ==
    /\ os' = c.w
    /\ sigLog' = sigLog \o c.sigs
    /\ termLog' = termLog \o c.terms
    /\ uiHandle' = c.handle
    /\ swept' = swept \cup c.swept
    /\ cleanups' = cleanups + 1
Cleanup(by) ==
    \E stopped \in {CleanupApi(CleanupUi(CleanupFrom(os, uiHandle), by), by)} :
        \E c3 \in {CleanupSweep(stopped)} : \E c \in {CleanupTemp(c3)} : CleanupTo(c)

\* An initialize() that returns what it has to return without calling cleanup().
TaskReturnsWithoutCleanup ==
    /\ TaskAt("t_cleanup")
    /\ pc' = "t_done"
    /\ result' = after
    /\ UNCHANGED <<fixed, handles, mpc, os, sysInit, cfg, objs, uiHandle, attempt, polls,
                   after, steps, gate, spawnLog, termLog, sigLog, swept, cleanups,
                   lastError, signalled>>

\* The coroutine's cleanup(), after which initialize() returns.
TaskCleanup ==
    /\ TaskAt("t_cleanup")
    /\ Cleanup("task")
    /\ pc' = "t_done"
    /\ result' = after
    /\ UNCHANGED <<fixed, handles, mpc, sysInit, cfg, objs, attempt, polls, after,
                   steps, gate, spawnLog, lastError, signalled>>

(***************************************************************************)
(* orchestrator.main() around the coroutine.                               *)
(***************************************************************************)
\* run_until_complete(initialize()) returned: loop.run_forever().
MainRunForever ==
    /\ entry = "orch" /\ mpc = "m_run" /\ pc = "t_done"
    /\ mpc' = "m_forever"
    /\ UNCHANGED <<fixed, handles, pc, os, sysInit, cfg, objs, uiHandle, attempt, polls, after, result,
                   steps, gate, spawnLog, termLog, sigLog, swept, cleanups, lastError,
                   signalled, late>>

\* KeyboardInterrupt. Raised while the loop waits, it leaves the coroutine
\* pending; raised inside a blocking call of the coroutine, it ends the
\* coroutine. main() goes on to its own cleanup().
ShutdownSignal ==
    /\ entry = "orch" /\ mpc \in {"m_run", "m_forever"} /\ signalled = ""
    /\ signalled' = pc
    /\ mpc' = "m_cleanup"
    /\ \E inTask \in BOOLEAN :
          /\ (pc = "t_ui_blocked" => inTask)
          /\ (pc \in {"t_ready", "t_done"} => ~inTask)
          /\ IF inTask THEN pc' = "t_aborted" /\ result' = "cancelled"
             ELSE UNCHANGED <<pc, result>>
    /\ UNCHANGED <<fixed, handles, os, sysInit, cfg, objs, uiHandle, attempt, polls, after,
                   steps, gate, spawnLog, termLog, sigLog, swept, cleanups, lastError, late>>

\* main(), except KeyboardInterrupt: run_until_complete(cleanup()).
MainCleanup ==
    /\ entry = "orch" /\ mpc = "m_cleanup"
    /\ Cleanup("main")
    /\ mpc' = "m_cancel"
    /\ UNCHANGED <<fixed, handles, pc, sysInit, cfg, objs, attempt, polls, after, result, steps,
                   gate, spawnLog, lastError, signalled, late>>

\* main(), finally: cancel what is pending. A coroutine holding READY catches
\* the cancellation and runs cleanup(); anywhere else the cancellation ends it.
MainCancelPending ==
    /\ entry = "orch" /\ mpc = "m_cancel"
    /\ mpc' = "m_wait"
    /\ IF pc = "t_ready"
       THEN /\ pc' = "t_cleanup" /\ after' = "true" /\ UNCHANGED result
       ELSE IF pc \in {"t_done", "t_aborted"}
       THEN UNCHANGED <<pc, after, result>>
       ELSE /\ pc' = "t_cancelled" /\ result' = "cancelled" /\ UNCHANGED after
    /\ UNCHANGED <<fixed, handles, os, sysInit, cfg, objs, uiHandle, attempt, polls,
                   steps, gate, spawnLog, termLog, sigLog, swept, cleanups, lastError,
                   signalled, late>>

\* main() returns once nothing is pending.
MainExit ==
    /\ entry = "orch" /\ mpc = "m_wait"
    /\ pc \in {"t_done", "t_aborted", "t_cancelled"}
    /\ mpc' = "m_exit"
    /\ UNCHANGED <<fixed, handles, pc, os, sysInit, cfg, objs, uiHandle, attempt, polls, after, result,
                   steps, gate, spawnLog, termLog, sigLog, swept, cleanups, lastError,
                   signalled, late>>

NextOrch ==
    \/ InitSystem \/ EnsureDependencies \/ EnsureOllama \/ OllamaWait \/ OllamaModels
    \/ ApiResolvePort \/ ApiStart \/ ApiPoll
    \/ UiResolvePort \/ UiStart \/ UiInnerPoll \/ UiTimedOutExit \/ UiPoll
    \/ TaskCleanup
    \/ MainRunForever \/ ShutdownSignal \/ MainCleanup \/ MainCancelPending \/ MainExit

(***************************************************************************)
(* ServiceManager (core/services.py).                                      *)
(***************************************************************************)
SmPorts == <<OllamaPort, DefaultApiPort, StreamlitPort>>
WaitOutcomes == {"healthy", "dead", "timeout"}

\* is_port_in_use: something accepts a connection on the port.
IsPortInUse(w, p) == w.occ[p] \notin {"free", "zombie"}

\* kill_process_on_port: the process tree of the Streamlit port is killed at
\* once; any other owner is terminated and, with force, killed after the grace
\* period. False when no owner is found or the owner cannot be signalled.
SmKillProcessOnPort(w, p, force) ==
    LET o == w.occ[p]
    IN  IF o \in {"free", "zombie"} THEN [ok |-> FALSE, w |-> w, sigs |-> <<>>]
        ELSE IF o = "py_stuck"
        THEN [ok |-> FALSE, w |-> w,
              sigs |-> <<Sig(o, p, IF p = StreamlitPort THEN "treekill" ELSE "term")>>]
        ELSE IF p = StreamlitPort
        THEN [ok |-> TRUE, w |-> IF DiesOnForce(o) THEN ExitOccupant(w, p) ELSE w,
              sigs |-> <<Sig(o, p, "treekill")>>]
        ELSE IF DiesOnGraceful(o)
        THEN [ok |-> TRUE, w |-> ExitOccupant(w, p), sigs |-> <<Sig(o, p, "term")>>]
        ELSE IF force
        THEN [ok |-> TRUE, w |-> IF DiesOnForce(o) THEN ExitOccupant(w, p) ELSE w,
              sigs |-> <<Sig(o, p, "term"), Sig(o, p, "kill")>>]
        ELSE [ok |-> TRUE, w |-> w, sigs |-> <<Sig(o, p, "term")>>]

\* ensure_ports_available: every required port in use is freed by force, or
\* the function gives up at the first port that stays in use.
RECURSIVE EnsurePortsAvailable(_, _, _)
Freed(k, ports, sigs) ==
    IF k.ok /\ ~IsPortInUse(k.w, Head(ports))
    THEN EnsurePortsAvailable(k.w, Tail(ports), sigs \o k.sigs)
    ELSE [ok |-> FALSE, w |-> k.w, sigs |-> sigs \o k.sigs]
EnsurePortsAvailable(w, ports, sigs) ==
    IF ports = <<>> THEN [ok |-> TRUE, w |-> w, sigs |-> sigs]
    ELSE IF ~IsPortInUse(w, Head(ports))
    THEN EnsurePortsAvailable(w, Tail(ports), sigs)
    ELSE Freed(SmKillProcessOnPort(w, Head(ports), TRUE), ports, sigs)

\* kill_streamlit_processes: every process whose name or command line contains
\* "streamlit" is killed.
KillStreamlitProcesses(w) == [w EXCEPT !.others = @ \ {"streamlit"}]
KillStreamlitSigs(w) ==
    IF "streamlit" \in w.others THEN <<Sig("streamlit", NoPort, "killname")>> ELSE <<>>
KilledStreamlit(c) ==
    [c EXCEPT !.w = KillStreamlitProcesses(c.w), !.sigs = @ \o KillStreamlitSigs(c.w)]

\* stop_service: the UI process tree is killed; any other process is
\* terminated and killed after the grace period; the handle is dropped.
StopService(c, s, by) ==
    LET up == c.w.proc[s] = "up"
    IN  [c EXCEPT !.terms = Append(@, Term(s, by)),
                  !.w = IF up THEN ExitProc(c.w, s) ELSE c.w,
                  !.sigs = IF ~up THEN @
                           ELSE IF s = "ui" THEN Append(@, Sig(s, NoPort, "treekill"))
                           ELSE IF s \in stubborn
                           THEN @ \o <<Sig(s, NoPort, "term"), Sig(s, NoPort, "kill")>>
                           ELSE Append(@, Sig(s, NoPort, "term"))]

RECURSIVE StopEach(_, _, _)
StopEach(c, names, by) ==
    IF names = <<>> THEN c ELSE StopEach(StopService(c, Head(names), by), Tail(names), by)

RECURSIVE SmSweep(_, _)
SmSwept(c, k, p) == [c EXCEPT !.w = k.w, !.sigs = @ \o k.sigs, !.swept = @ \cup {p}]
SmSweep(c, ports) ==
    IF ports = <<>> THEN c
    ELSE SmSweep(SmSwept(c, SmKillProcessOnPort(c.w, Head(ports), TRUE), Head(ports)),
                 Tail(ports))

\* stop_all_services: the UI first, then the other services in the order of
\* the processes dict, then the three ports; the dict is cleared.
IsUi(n) == n = "ui"
NotUi(n) == n # "ui"
StopOrder(names) == SelectSeq(names, IsUi) \o SelectSeq(names, NotUi)
StopAllTo(c) ==
    /\ os' = c.w
    /\ sigLog' = sigLog \o c.sigs
    /\ termLog' = termLog \o c.terms
    /\ swept' = swept \cup c.swept
    /\ handles' = <<>>
    /\ cleanups' = cleanups + 1
StopAll(by) == SmSweep(StopEach(CleanupFrom(os, FALSE), StopOrder(handles), by), SmPorts)
StopAllServices(by) == StopAllTo(StopAll(by))

\* The process spawned for service s during its wait loop: it answers, it
\* exits, or it stays up without answering until the window ends.
AfterWait(w, s, outcome) == IF outcome = "dead" THEN ExitProc(w, s) ELSE w
\* A process that could not bind its port never answers.
Effective(outcome, binds) == IF outcome = "healthy" /\ ~binds THEN "timeout" ELSE outcome
GateOf(outcome) ==
    CASE outcome = "healthy" -> "HEALTHY"
      [] outcome = "dead" -> "PROCESS_DEAD"
      [] OTHER -> "TIMEOUT"

\* start_all_services: ensure_ports_available.
SmEnsurePorts ==
    /\ entry = "sm" /\ pc = "start"
    /\ \E r \in {EnsurePortsAvailable(os, SmPorts, <<>>)} :
           /\ os' = r.w
           /\ sigLog' = sigLog \o r.sigs
           /\ IF r.ok THEN pc' = "s_ollama" /\ UNCHANGED result
              ELSE pc' = "s_done" /\ result' = "false"
    /\ UNCHANGED <<fixed, orchOnly, handles, gate, spawnLog, termLog, swept, cleanups,
                   lastError>>

\* start_all_services: start_ollama; its failure returns False at once.
SmStartOllama ==
    /\ entry = "sm" /\ pc = "s_ollama"
    /\ IF os.occ[OllamaPort] = "ollama_ext"
       THEN /\ pc' = "s_api"
            /\ UNCHANGED <<os, handles, spawnLog, gate, result>>
       ELSE \E found \in BOOLEAN, outcome \in WaitOutcomes :
              IF ~found
              THEN /\ pc' = "s_done" /\ result' = "false"
                   /\ UNCHANGED <<os, handles, spawnLog, gate>>
              ELSE LET w1 == SpawnProc(os, "ollama", OllamaPort)
                       out == Effective(outcome, w1.occ[OllamaPort] = "ollama")
                   IN  /\ os' = AfterWait(w1, "ollama", out)
                       /\ handles' = Append(handles, "ollama")
                       /\ spawnLog' = Spawned(spawnLog, "ollama")
                       /\ gate' = [gate EXCEPT !["ollama"] = GateOf(out)]
                       /\ IF out = "healthy"
                          THEN pc' = "s_api" /\ UNCHANGED result
                          ELSE pc' = "s_done" /\ result' = "false"
    /\ UNCHANGED <<fixed, orchOnly, termLog, sigLog, swept, cleanups, lastError>>

\* start_all_services: start_api; a port still in use is freed without force
\* first; the API process is spawned on the fixed API port.
SmStartApi ==
    /\ entry = "sm" /\ pc = "s_api"
    /\ \E k \in {IF IsPortInUse(os, DefaultApiPort)
                   THEN SmKillProcessOnPort(os, DefaultApiPort, FALSE)
                   ELSE [ok |-> TRUE, w |-> os, sigs |-> <<>>]} :
           /\ sigLog' = sigLog \o k.sigs
           /\ IF ~k.ok \/ IsPortInUse(k.w, DefaultApiPort)
              THEN /\ os' = k.w
                   /\ pc' = "s_stop"
                   /\ UNCHANGED <<handles, spawnLog, gate>>
              ELSE \E outcome \in WaitOutcomes :
                     LET w1 == SpawnProc(k.w, "api", DefaultApiPort)
                         out == Effective(outcome, w1.occ[DefaultApiPort] = "api")
                     IN  /\ os' = AfterWait(w1, "api", out)
                         /\ handles' = Append(handles, "api")
                         /\ spawnLog' = Spawned(spawnLog, "api")
                         /\ gate' = [gate EXCEPT !["api"] = GateOf(out)]
                         /\ pc' = IF out = "healthy" THEN "s_ui" ELSE "s_stop"
    /\ UNCHANGED <<fixed, orchOnly, result, termLog, swept, cleanups, lastError>>

\* The wait loop of start_ui looks at the process only in the rounds in which
\* something accepts a connection on the Streamlit port: a process that has
\* exited, and with it its listener, is reported at the end of the window.
SmUiGate(w, out) ==
    IF out = "healthy" THEN "HEALTHY"
    ELSE IF out = "dead" /\ IsPortInUse(w, StreamlitPort) THEN "PROCESS_DEAD"
    ELSE "TIMEOUT"

\* start_all_services: start_ui up to the end of its wait loop; the Streamlit
\* processes found are killed, then the UI process is spawned on the fixed
\* Streamlit port once that port is free. When the window ends, communicate()
\* waits for the process to exit.
SmStartUi ==
    /\ entry = "sm" /\ pc = "s_ui"
    /\ sigLog' = sigLog \o KillStreamlitSigs(os)
    /\ IF IsPortInUse(os, StreamlitPort)
       THEN /\ pc' = "s_stop"
            /\ os' = KillStreamlitProcesses(os)
            /\ UNCHANGED <<handles, spawnLog, gate, objs>>
       ELSE \E outcome \in WaitOutcomes :
              LET w1 == SpawnProc(MakeTempDir(KillStreamlitProcesses(os)), "ui", StreamlitPort)
                  out == Effective(outcome, w1.occ[StreamlitPort] = "ui")
              IN  /\ os' = AfterWait(w1, "ui", out)
                  /\ objs' = [objs EXCEPT !.uiApiPort = cfg.api]
                  /\ handles' = Append(handles, "ui")
                  /\ spawnLog' = Spawned(spawnLog, "ui")
                  /\ gate' = [gate EXCEPT !["ui"] = SmUiGate(os', out)]
                  /\ pc' = CASE out = "healthy" -> "s_ready"
                              [] out = "dead" -> "s_stop"
                              [] OTHER -> "s_ui_blocked"
    /\ result' = IF pc' = "s_ready" THEN "true" ELSE result
    /\ UNCHANGED <<fixed, mpc, sysInit, cfg, uiHandle, attempt, polls, after, steps,
                   signalled, late, termLog, swept, cleanups, lastError>>

\* start_ui after its window ended with the process alive: communicate()
\* returns once the process has exited by itself.
SmUiTimedOutExit ==
    /\ entry = "sm" /\ pc = "s_ui_blocked"
    /\ os' = ExitProc(os, "ui")
    /\ pc' = "s_stop"
    /\ UNCHANGED <<fixed, orchOnly, handles, result, gate, spawnLog, termLog, sigLog, swept,
                   cleanups, lastError>>

\* start_all_services: stop_all_services after a failed start_api / start_ui,
\* then return False.
SmFailStop ==
    /\ entry = "sm" /\ pc = "s_stop"
    /\ StopAllServices("start")
    /\ pc' = "s_done"
    /\ result' = "false"
    /\ UNCHANGED <<fixed, orchOnly, gate, spawnLog, lastError>>

\* ServiceManager.cleanup: stop_all_services once more, whatever start
\* returned, then kill_streamlit_processes and the removal of the temp directories.
SmTempRemoved(c) == [c EXCEPT !.w = RemoveTempDirs(c.w)]
SmCleanup ==
    /\ entry = "sm" /\ pc \in {"s_ready", "s_done"}
    /\ \E stopped \in {StopAll("cleanup")} :
          \E c \in {SmTempRemoved(KilledStreamlit(stopped))} : StopAllTo(c)
    /\ pc' = "s_closed"
    /\ UNCHANGED <<fixed, orchOnly, result, gate, spawnLog, lastError>>

NextSm ==
    \/ SmEnsurePorts \/ SmStartOllama \/ SmStartApi \/ SmStartUi \/ SmUiTimedOutExit
    \/ SmFailStop \/ SmCleanup

(***************************************************************************)
(* ServiceLauncher (launcher.py), on Windows.                              *)
(***************************************************************************)
\* The requests.get of a start loop is answered by whoever listens on the port.
Answers(w, p, outcome) == outcome = "healthy" /\ IsPortInUse(w, p)

\* handle_shutdown, one entry of the processes dict: every ollama.exe is
\* killed by name; any other process gets CTRL_BREAK and is killed when it
\* has not exited after the grace period.
KillEveryOllama(w) == [w EXCEPT !.others = @ \ {"ollama.exe"}]
KillByName(w) ==
    IF w.occ[OllamaPort] = "ollama_ext"
    THEN KillEveryOllama(ExitOccupant(ExitProc(w, "ollama"), OllamaPort))
    ELSE KillEveryOllama(ExitProc(w, "ollama"))
LauncherStop(c, s, by) ==
    [c EXCEPT !.terms = Append(@, Term(s, by)),
              !.w = IF s = "ollama" THEN KillByName(c.w) ELSE ExitProc(c.w, s),
              !.sigs = IF s = "ollama" THEN Append(@, Sig(s, NoPort, "killname"))
                       ELSE IF c.w.proc[s] # "up" THEN @
                       ELSE IF s \in stubborn
                       THEN @ \o <<Sig(s, NoPort, "term"), Sig(s, NoPort, "kill")>>
                       ELSE Append(@, Sig(s, NoPort, "term"))]

\* What may go wrong while one entry is stopped: the stop command raises
\* (caught by 'except Exception' and logged, nothing further is done for the
\* entry), or the kill in the handler of the expired wait raises (only
\* NoSuchProcess is caught there, anything else leaves handle_shutdown).
StopFaults == {"signal", "kill"}
SignalRaised(c, s, by) == [c EXCEPT !.terms = Append(@, Term(s, by))]
KillRaised(c, s, by) ==
    [c EXCEPT !.terms = Append(@, Term(s, by)),
              !.sigs = Append(@, Sig(s, NoPort, "term"))]
\* The handler of the expired wait is reached: the process got CTRL_BREAK and
\* has not exited after the grace period.
KillReached(w, s) == s # "ollama" /\ w.proc[s] = "up" /\ s \in stubborn
Aborts(w, names, bad, how) ==
    how = "kill" /\ bad \in SeqToSet(names) /\ KillReached(w, bad)

RECURSIVE LauncherStopEach(_, _, _, _, _)
LauncherStopEach(c, names, by, bad, how) ==
    IF names = <<>> THEN c
    ELSE IF Head(names) # bad
    THEN LauncherStopEach(LauncherStop(c, Head(names), by), Tail(names), by, bad, how)
    ELSE IF how = "signal"
    THEN LauncherStopEach(SignalRaised(c, bad, by), Tail(names), by, bad, how)
    ELSE IF KillReached(c.w, bad) THEN KillRaised(c, bad, by)
    ELSE LauncherStopEach(LauncherStop(c, bad, by), Tail(names), by, bad, how)

HandleShutdownTo(c, aborted) ==
    /\ os' = c.w
    /\ sigLog' = sigLog \o c.sigs
    /\ termLog' = termLog \o c.terms
    /\ cleanups' = IF aborted THEN cleanups ELSE cleanups + 1

\* launch: check_ollama up to the Popen.
LCheckOllama ==
    /\ entry = "launcher" /\ pc = "start"
    /\ IF os.occ[OllamaPort] = "ollama_ext"
       THEN /\ pc' = "l_api"
            /\ UNCHANGED <<os, handles, spawnLog, gate, result>>
       ELSE \E found \in BOOLEAN :
              IF os.occ[OllamaPort] # "free" \/ ~found
              THEN /\ pc' = "l_done" /\ result' = "false"
                   /\ UNCHANGED <<os, handles, spawnLog, gate>>
              ELSE /\ os' = SpawnProc(os, "ollama", OllamaPort)
                   /\ handles' = Append(handles, "ollama")
                   /\ spawnLog' = Spawned(spawnLog, "ollama")
                   /\ gate' = [gate EXCEPT !["ollama"] = "waiting"]
                   /\ pc' = "l_ollama_wait"
                   /\ UNCHANGED result
    /\ UNCHANGED <<fixed, orchOnly, termLog, sigLog, swept, cleanups, lastError>>

\* The wait loop of a start function of the launcher for service s on port p.
LauncherWait(s, p, at, next, onFail) ==
    /\ entry = "launcher" /\ pc = at
    /\ \E outcome \in WaitOutcomes :
          /\ os' = AfterWait(os, s, outcome)
          /\ IF Answers(os', p, outcome)
             THEN /\ gate' = [gate EXCEPT ![s] = "HEALTHY"]
                  /\ pc' = next
             ELSE /\ gate' = [gate EXCEPT ![s] = "TIMEOUT"]
                  /\ pc' = onFail
    /\ result' = IF pc' = "l_monitor" THEN "true"
                 ELSE IF pc' = "l_done" THEN "false" ELSE result
    /\ UNCHANGED <<fixed, orchOnly, handles, spawnLog, termLog, sigLog, swept, cleanups,
                   lastError>>

\* check_ollama: the wait loop; launch returns when it fails.
LOllamaWait == LauncherWait("ollama", OllamaPort, "l_ollama_wait", "l_api", "l_done")

\* The Popen of a start function of the launcher; a missing script fails it.
LauncherSpawn(s, p, at, next) ==
    /\ entry = "launcher" /\ pc = at
    /\ \E missing \in BOOLEAN :
          IF missing
          THEN /\ pc' = "l_shutdown"
               /\ UNCHANGED <<os, handles, spawnLog, gate>>
          ELSE /\ os' = SpawnProc(os, s, p)
               /\ handles' = Append(handles, s)
               /\ spawnLog' = Spawned(spawnLog, s)
               /\ gate' = [gate EXCEPT ![s] = "waiting"]
               /\ pc' = next
    /\ UNCHANGED <<fixed, orchOnly, result, termLog, sigLog, swept, cleanups, lastError>>

LStartApi == LauncherSpawn("api", DefaultApiPort, "l_api", "l_api_wait")
LApiWait == LauncherWait("api", DefaultApiPort, "l_api_wait", "l_ui", "l_shutdown")
LStartStreamlit == LauncherSpawn("ui", StreamlitPort, "l_ui", "l_ui_wait")
LUiWait == LauncherWait("ui", StreamlitPort, "l_ui_wait", "l_monitor", "l_shutdown")

\* launch: the monitor loop finds that a process of the dict has exited.
LProcessDied ==
    /\ entry = "launcher" /\ pc = "l_monitor"
    /\ \E s \in SeqToSet(handles) :
          /\ os.proc[s] = "up"
          /\ os' = ExitProc(os, s)
    /\ pc' = "l_shutdown"
    /\ UNCHANGED <<fixed, orchOnly, handles, result, gate, spawnLog, termLog, sigLog, swept,
                   cleanups, lastError>>

\* SIGINT / SIGTERM: the handler registered in __init__ is handle_shutdown.
LSignal ==
    /\ entry = "launcher"
    /\ pc \in {"start", "l_ollama_wait", "l_api", "l_api_wait", "l_ui", "l_ui_wait",
               "l_monitor"}
    /\ pc' = "l_shutdown"
    /\ signalled' = pc
    /\ UNCHANGED <<fixed, mpc, sysInit, cfg, objs, uiHandle, attempt, polls, after, steps,
                   late, os, handles, result, gate, spawnLog, termLog, sigLog, swept,
                   cleanups, lastError>>

\* handle_shutdown: every process of the dict in dict order, then cleanup()
\* and sys.exit; an exception that leaves the loop ends the program too.
LHandleShutdown ==
    /\ entry = "launcher" /\ pc = "l_shutdown"
    /\ \E bad \in {"none"} \cup SeqToSet(handles), how \in StopFaults :
          \E c \in {LauncherStopEach(CleanupFrom(os, FALSE), handles, "launcher", bad, how)} :
              HandleShutdownTo(c, Aborts(os, handles, bad, how))
    /\ pc' = "l_exit"
    /\ result' = IF result = "none" THEN "false" ELSE result
    /\ UNCHANGED <<fixed, orchOnly, handles, gate, spawnLog, swept, lastError>>

NextLauncher ==
    \/ LCheckOllama \/ LOllamaWait \/ LStartApi \/ LApiWait \/ LStartStreamlit \/ LUiWait
    \/ LProcessDied \/ LSignal \/ LHandleShutdown

(***************************************************************************)
(* SystemInit.run_initialization (core/launcher.py).                       *)
(***************************************************************************)
SiPorts == {DefaultApiPort, DefaultUiPort, OllamaPort}

\* run_initialization up to the construction of the two servers:
\* check_system_requirements wants the dependencies, no connection on a
\* required port, and an Ollama that answers at the configured host.
SiRequirements ==
    /\ entry = "sysinit" /\ pc = "start"
    /\ \E deps \in BOOLEAN, ollamaAnswers \in BOOLEAN :
          IF deps /\ ollamaAnswers /\ \A p \in SiPorts : os.occ[p] = "free"
          THEN /\ objs' = [api |-> TRUE, apiPort |-> DefaultApiPort,
                           ui |-> TRUE, uiApiPort |-> DefaultApiPort]
               /\ pc' = "i_start"
          ELSE /\ pc' = "i_cleanup"
               /\ UNCHANGED objs
    /\ UNCHANGED <<fixed, mpc, sysInit, cfg, uiHandle, handles, attempt, polls, after, steps,
                   signalled, late, os, result, gate, spawnLog, termLog, sigLog, swept,
                   cleanups, lastError>>

\* api_task: APIServer.start serves in this process until the server stops;
\* a failed bind ends the task with an exception.
SiApiStart ==
    /\ entry = "sysinit" /\ pc = "i_start" /\ gate["api"] = "none" /\ gate["ui"] # "TIMEOUT"
    /\ \E raises \in BOOLEAN :
          IF raises \/ os.occ[objs.apiPort] # "free"
          THEN /\ gate' = [gate EXCEPT !["api"] = "FAILED"]
               /\ pc' = "i_cleanup"
               /\ UNCHANGED <<os, spawnLog>>
          ELSE /\ os' = SpawnProc(os, "api", objs.apiPort)
               /\ spawnLog' = Spawned(spawnLog, "api")
               /\ gate' = [gate EXCEPT !["api"] = "serving"]
               /\ UNCHANGED pc
    /\ UNCHANGED <<fixed, mpc, sysInit, cfg, objs, uiHandle, handles, attempt, polls, after,
                   steps, signalled, late, result, termLog, sigLog, swept, cleanups,
                   lastError>>

\* ui_task: UIServer.start up to the Popen.
SiUiStart ==
    /\ entry = "sysinit" /\ pc = "i_start" /\ gate["ui"] = "none"
    /\ \E missing \in BOOLEAN :
          IF missing
          THEN /\ gate' = [gate EXCEPT !["ui"] = "FAILED"]
               /\ pc' = "i_cleanup"
               /\ os' = MakeTempDir(os)
               /\ UNCHANGED <<spawnLog, uiHandle>>
          ELSE /\ os' = SpawnProc(MakeTempDir(os), "ui", StreamlitPort)
               /\ spawnLog' = Spawned(spawnLog, "ui")
               /\ uiHandle' = TRUE
               /\ gate' = [gate EXCEPT !["ui"] = "waiting"]
               /\ UNCHANGED pc
    /\ UNCHANGED <<fixed, mpc, sysInit, cfg, objs, handles, attempt, polls, after,
                   steps, signalled, late, result, termLog, sigLog, swept, cleanups,
                   lastError>>

\* ui_task: the wait loop of UIServer.start. A process found dead raises at
\* once; when the window ends, communicate() blocks the event loop until the
\* process has exited.
SiUiWait ==
    /\ entry = "sysinit" /\ pc = "i_start" /\ gate["ui"] = "waiting"
    /\ \E outcome \in WaitOutcomes :
          IF Effective(outcome, os.occ[StreamlitPort] = "ui") = "healthy"
          THEN /\ gate' = [gate EXCEPT !["ui"] = "HEALTHY"]
               /\ UNCHANGED <<os, pc>>
          ELSE IF outcome = "dead"
          THEN /\ gate' = [gate EXCEPT !["ui"] = "PROCESS_DEAD"]
               /\ os' = ExitProc(os, "ui")
               /\ pc' = "i_cleanup"
          ELSE /\ gate' = [gate EXCEPT !["ui"] = "TIMEOUT"]
               /\ UNCHANGED <<os, pc>>
    /\ UNCHANGED <<fixed, mpc, sysInit, cfg, objs, uiHandle, handles, attempt, polls, after,
                   steps, signalled, late, result, spawnLog, termLog, sigLog, swept,
                   cleanups, lastError>>

\* ui_task after the window of UIServer.start ended: communicate() returns once
\* the process has exited by itself, and TimeoutError leaves start().
SiUiTimedOutExit ==
    /\ entry = "sysinit" /\ pc = "i_start" /\ gate["ui"] = "TIMEOUT"
    /\ os' = ExitProc(os, "ui")
    /\ pc' = "i_cleanup"
    /\ UNCHANGED <<fixed, mpc, sysInit, cfg, objs, uiHandle, handles, attempt, polls, after,
                   steps, signalled, late, result, gate, spawnLog, termLog, sigLog, swept,
                   cleanups, lastError>>

\* gather returns once the API server has stopped serving and the UI task is
\* done: run_initialization returns normally.
SiApiServerExits ==
    /\ entry = "sysinit" /\ pc = "i_start"
    /\ gate["api"] = "serving" /\ gate["ui"] = "HEALTHY"
    /\ os' = ExitProc(os, "api")
    /\ pc' = "i_done"
    /\ result' = "true"
    /\ UNCHANGED <<fixed, mpc, sysInit, cfg, objs, uiHandle, handles, attempt, polls, after,
                   steps, signalled, late, gate, spawnLog, termLog, sigLog, swept,
                   cleanups, lastError>>

\* SystemInit.cleanup: api_server.stop(), then ui_server.stop().
SiStopApi(c, by) == IF objs.api THEN [c EXCEPT !.terms = Append(@, Term("api", by))] ELSE c
SiStopUi(c, by) ==
    IF objs.ui
    THEN [c EXCEPT !.terms = Append(@, Term("ui", by)),
                   !.w = UiStop(c.w, c.handle),
                   !.sigs = @ \o UiStopSigs(c.w, c.handle),
                   !.handle = UiStopHandle(c.w, c.handle)]
    ELSE c
\* Once the exception has left run_initialization, asyncio.run cancels the
\* tasks still pending, the serving API task among them.
SiCleanupTo(c) ==
    /\ os' = ExitProc(c.w, "api")
    /\ sigLog' = sigLog \o c.sigs
    /\ termLog' = termLog \o c.terms
    /\ uiHandle' = c.handle
    /\ cleanups' = cleanups + 1

\* run_initialization, except: cleanup(), then re-raise.
SiCleanup ==
    /\ entry = "sysinit" /\ pc = "i_cleanup"
    /\ SiCleanupTo(SiStopUi(SiStopApi(CleanupFrom(os, uiHandle), "sysinit"), "sysinit"))
    /\ pc' = "i_done"
    /\ result' = "raise"
    /\ UNCHANGED <<fixed, mpc, sysInit, cfg, objs, handles, attempt, polls, after,
                   steps, signalled, late, gate, spawnLog, swept, lastError>>

NextSysInit ==
    \/ SiRequirements \/ SiApiStart \/ SiUiStart \/ SiUiWait \/ SiUiTimedOutExit
    \/ SiApiServerExits \/ SiCleanup

Next == NextOrch \/ NextSm \/ NextLauncher \/ NextSysInit

Spec == Init /\ [][Next]_vars

\* The steps the program takes by itself. The other steps of Next wait for
\* somebody else: a child process that exits (UiTimedOutExit, SmUiTimedOutExit,
\* SiUiTimedOutExit, SiApiServerExits, LProcessDied) or an operator who sends
\* a signal (ShutdownSignal, LSignal).
ProgramStep ==
    \/ InitSystem \/ EnsureDependencies \/ EnsureOllama \/ OllamaWait \/ OllamaModels
    \/ ApiResolvePort \/ ApiStart \/ ApiPoll
    \/ UiResolvePort \/ UiStart \/ UiInnerPoll \/ UiPoll
    \/ TaskCleanup
    \/ MainRunForever \/ MainCleanup \/ MainCancelPending \/ MainExit
    \/ SmEnsurePorts \/ SmStartOllama \/ SmStartApi \/ SmStartUi \/ SmFailStop \/ SmCleanup
    \/ LCheckOllama \/ LOllamaWait \/ LStartApi \/ LApiWait \/ LStartStreamlit \/ LUiWait
    \/ LHandleShutdown
    \/ SiRequirements \/ SiApiStart \/ SiUiStart \/ SiUiWait \/ SiCleanup

\* The interpreter keeps running the program: a program step that stays
\* possible is taken.
FairSpec == Init /\ [][Next]_vars /\ WF_vars(ProgramStep)

(***************************************************************************)
(* The port functions on a connection table.                               *)
(* The runs above see at most one listener per port and no client          *)
(* connection. Here the functions that resolve and stop the owner of a     *)
(* port are called on the rows netstat prints, client connections          *)
(* included, and on sockets that are bound without listening.              *)
(***************************************************************************)
\* A row: local port, remote port (NoPort when there is no peer), state, pid.
\* "BOUND" is a socket that is bound and does not listen: netstat does not print it.
ProbePorts == {DefaultApiPort, DefaultUiPort}
EphemeralPorts == {49152}
NetRows ==
    {[local |-> p, remote |-> NoPort, state |-> st, pid |-> i] :
        p \in ProbePorts, st \in {"LISTENING", "BOUND"}, i \in NetPids}
    \cup {[local |-> e, remote |-> p, state |-> "ESTABLISHED", pid |-> i] :
        e \in EphemeralPorts, p \in ProbePorts, i \in NetPids}
\* Kinds of processes: a Python interpreter, another program, a process that
\* cannot be stopped (access denied), a pid that no longer resolves.
TaskKinds == {"python", "other", "denied", "gone"}
TaskName(kind) ==
    CASE kind = "python" -> "python.exe"
      [] kind = "gone" -> "ZOMBIE"
      [] OTHER -> "other.exe"

\* findstr ":<p>" on an address "<host>:<q>": the text of q starts with the text of p.
RECURSIVE TextStartsWith(_, _)
TextStartsWith(q, p) == q = p \/ (q > p /\ TextStartsWith(q \div 10, p))
\* A printed line that findstr ":<p>" lets through: the local or the foreign
\* address matches.
LineMatches(r, p) ==
    /\ r.state # "BOUND"
    /\ TextStartsWith(r.local, p) \/ TextStartsWith(r.remote, p)
\* Index of the first matching line from line i on, 0 without one.
RECURSIVE NetLine(_, _, _)
NetLine(t, p, i) ==
    IF i > Len(t) THEN 0
    ELSE IF LineMatches(t[i], p) THEN i
    ELSE NetLine(t, p, i + 1)

\* _get_process_on_port: pid and image name taken from the first matching line.
OwnerAt(t, k, i) ==
    IF i = 0 THEN [pid |-> 0, name |-> "none"]
    ELSE [pid |-> t[i].pid, name |-> TaskName(k[t[i].pid])]
\* A lookup that cannot be performed yields no owner.
NetGetProcessOnPort(t, k, p) ==
    OwnerAt(t, k, IF host.lookup = "failed" THEN 0 ELSE NetLine(t, p, 1))

\* The process pid exits: its sockets leave the table.
RECURSIVE RowsWithout(_, _)
RowsWithout(t, pid) ==
    IF t = <<>> THEN <<>>
    ELSE IF Head(t).pid = pid THEN RowsWithout(Tail(t), pid)
    ELSE <<Head(t)>> \o RowsWithout(Tail(t), pid)
NetExit(t, k, pid) == [net |-> RowsWithout(t, pid), tasks |-> [k EXCEPT ![pid] = "gone"]]
NetNothing(t, k, ok) == [ok |-> ok, net |-> t, tasks |-> k, victim |-> 0]

\* _kill_process_on_port: no owner returns True; a zombie entry survives the
\* ladder; otherwise the owner is stopped (gracefully, then by force) and the
\* port is looked up again after each stop.
NetStopped(e, p, pid) ==
    [ok |-> NetLine(e.net, p, 1) = 0, net |-> e.net, tasks |-> e.tasks, victim |-> pid]
NetKillOwner(t, k, p, o) ==
    IF o.name = "none" THEN NetNothing(t, k, TRUE)
    ELSE IF o.name = "ZOMBIE" \/ k[o.pid] = "denied" THEN NetNothing(t, k, FALSE)
    ELSE NetStopped(NetExit(t, k, o.pid), p, o.pid)
NetKillProcessOnPort(t, k, p) == NetKillOwner(t, k, p, NetGetProcessOnPort(t, k, p))

\* ServiceManager.kill_process_on_port: every line that contains ":<p>" is
\* tried in turn; a pid that does not resolve or denies access is skipped; the
\* first process that can be terminated is, and True is returned. Without a
\* line, findstr fails and the function returns False.
RECURSIVE NetSmKillFrom(_, _, _, _)
NetSmKillFrom(t, k, p, i) ==
    IF i > Len(t) THEN NetNothing(t, k, FALSE)
    ELSE IF ~LineMatches(t[i], p) \/ k[t[i].pid] \in {"gone", "denied"}
         THEN NetSmKillFrom(t, k, p, i + 1)
    ELSE [ok |-> TRUE, net |-> RowsWithout(t, t[i].pid),
          tasks |-> [k EXCEPT ![t[i].pid] = "gone"], victim |-> t[i].pid]
NetSmKillProcessOnPort(t, k, p) ==
    IF host.lookup = "failed" THEN NetNothing(t, k, FALSE) ELSE NetSmKillFrom(t, k, p, 1)

\* bind(('localhost', p)) succeeds when no socket is bound to p and p is not
\* in the excluded port range.
NetBindSucceeds(t, p) ==
    /\ p \notin host.excluded
    /\ \A i \in 1..Len(t) : ~(t[i].local = p /\ t[i].state \in {"LISTENING", "BOUND"})
\* _check_port: stop the owner when it is a Python process, then the bind test.
NetBound(r, p) == [ok |-> NetBindSucceeds(r.net, p), net |-> r.net, tasks |-> r.tasks,
                   victim |-> r.victim]
NetCheckPort(t, k, p) ==
    NetBound(IF NetGetProcessOnPort(t, k, p).name \in PythonNames
             THEN NetKillProcessOnPort(t, k, p) ELSE NetNothing(t, k, TRUE), p)
\* ServiceManager.is_port_in_use: connect_ex(('127.0.0.1', p)) == 0.
NetIsPortInUse(t, p) == \E i \in 1..Len(t) : t[i].local = p /\ t[i].state = "LISTENING"

\* No run of an entry point is in progress.
NoRun ==
    /\ entry = "none" /\ pc = "start" /\ mpc = "m_run"
    /\ stubborn = {} /\ ollamaExt = FALSE
    /\ os = [occ |-> [p \in Ports |-> "free"],
             proc |-> [s \in Services |-> "none"],
             bound |-> [s \in Services |-> NoPort],
             orphans |-> [s \in Services |-> 0],
             others |-> {},
             temp |-> FALSE]
    /\ sysInit = "none"
    /\ cfg = [api |-> DefaultApiPort, ui |-> DefaultUiPort]
    /\ objs = [api |-> FALSE, apiPort |-> NoPort, ui |-> FALSE, uiApiPort |-> NoPort]
    /\ uiHandle = FALSE /\ handles = <<>> /\ attempt = 0 /\ polls = 0
    /\ after = "none" /\ result = "none"
    /\ steps = [n \in StepNames |-> "none"]
    /\ gate = [s \in Services |-> "none"]
    /\ spawnLog = <<>> /\ termLog = <<>> /\ sigLog = <<>>
    /\ swept = {} /\ cleanups = 0
    /\ lastError = [msg |-> "", ports |-> {}]
    /\ signalled = "" /\ late = 0

\* Tables explored: up to MaxRows rows, at most one socket bound to a port.
OneSocketPerPort(t) ==
    \A i, j \in 1..Len(t) :
        (i # j /\ t[i].local = t[j].local) => "ESTABLISHED" \in {t[i].state, t[j].state}
InitPorts ==
    /\ NoRun
    /\ \E n \in 0..MaxRows : net \in [1..n -> NetRows]
    /\ OneSocketPerPort(net)
    /\ tasks \in [NetPids -> TaskKinds]
    /\ calls = <<>>
    /\ tree = NoTree
    /\ stops = <<>>
    /\ host \in {[excluded |-> {}, lookup |-> l] : l \in {"ok", "failed"}}
    /\ pipe = NoPipe

\* One call of a port function on the table.
Called(fn, p, r) ==
    /\ Len(calls) < MaxCalls
    /\ net' = r.net
    /\ tasks' = r.tasks
    /\ calls' = Append(calls, [fn |-> fn, port |-> p, ret |-> r.ok, victim |-> r.victim])
    /\ UNCHANGED <<runVars, tree, stops, pipe>>
\* The zombie ladder runs "delete excludedportrange" and then "add
\* excludedportrange" on the port, each elevated: either command takes effect
\* or not (consent refused, command failed). No step releases the zombie entry,
\* so the ladder runs to its end.
LadderExcluded(x, p, deleted, added) ==
    IF added THEN x \cup {p} ELSE IF deleted THEN x \ {p} ELSE x
CallKillProcessOnPort ==
    \E p \in ProbePorts, deleted \in BOOLEAN, added \in BOOLEAN :
        /\ Called("_kill_process_on_port", p, NetKillProcessOnPort(net, tasks, p))
        /\ host' = IF NetGetProcessOnPort(net, tasks, p).name = "ZOMBIE"
                   THEN [host EXCEPT !.excluded = LadderExcluded(@, p, deleted, added)]
                   ELSE host
CallSmKillProcessOnPort ==
    /\ \E p \in ProbePorts :
          Called("kill_process_on_port", p, NetSmKillProcessOnPort(net, tasks, p))
    /\ UNCHANGED host
CallCheckPort ==
    /\ \E p \in ProbePorts : Called("_check_port", p, NetCheckPort(net, tasks, p))
    /\ UNCHANGED host
CallIsPortInUse ==
    /\ \E p \in ProbePorts :
          Called("is_port_in_use", p, NetNothing(net, tasks, NetIsPortInUse(net, p)))
    /\ UNCHANGED host

NextPorts == CallKillProcessOnPort \/ CallSmKillProcessOnPort \/ CallCheckPort \/ CallIsPortInUse

SpecPorts == InitPorts /\ [][NextPorts]_vars

(***************************************************************************)
(* The stop functions on a process tree.                                   *)
(* The runs above know one process per service. Here the functions that    *)
(* stop a service are called on a service process that has descendants,    *)
(* some of which ignore a graceful terminate signal (tree.deaf).           *)
(***************************************************************************)
Platforms == {"Windows", "Unix"}
\* process.children(recursive=True), taskkill /T: the descendants reachable
\* from the root through live parents.
Descendants(t) == IF "child" \in t.alive THEN t.alive \ {"root"} ELSE {}
\* children killed one by one, then process.kill().
KillTree(t) == [t EXCEPT !.alive = (@ \ Descendants(t)) \ {"root"}]
\* terminate(), wait(timeout=5), kill() when the wait timed out.
TerminateThenKill(t) == [t EXCEPT !.alive = @ \ {"root"}]
\* terminate(), wait(timeout=5); the TimeoutExpired is logged.
TerminateOnly(t) ==
    IF "root" \in t.deaf THEN t ELSE [t EXCEPT !.alive = @ \ {"root"}]

\* The handle to the process is dropped: del processes[name], _process = None,
\* process = None.
Dropped(t) == [t EXCEPT !.handle = FALSE]

\* ServiceManager.stop_service: nothing without an entry in the processes
\* dict; the entry is deleted once the process has been stopped.
SmStopService(t) ==
    IF ~t.handle THEN t
    ELSE IF "root" \notin t.alive THEN Dropped(t)
    ELSE IF t.svc = "ui" THEN Dropped(KillTree(t))
    ELSE Dropped(TerminateThenKill(t))
\* SystemOrchestrator.cleanup: ui_server.stop() kills the tree of a running
\* process and sets _process to None; the API process is terminated and
\* killed after the grace period, api_server.process stays set.
OrchStopServer(t) ==
    IF ~t.handle \/ "root" \notin t.alive THEN t
    ELSE IF t.svc = "ui" THEN Dropped(KillTree(t))
    ELSE TerminateThenKill(t)
\* OllamaServer.stop: taskkill /F /T on Windows, terminate and wait elsewhere;
\* process is set to None in the finally clause.
OllamaServerStop(t) ==
    IF ~t.handle THEN t
    ELSE IF "root" \notin t.alive THEN Dropped(t)
    ELSE IF t.plat = "Windows" THEN Dropped(KillTree(t))
    ELSE Dropped(TerminateOnly(t))

\* Trees explored: the service process is running when the first stop is called.
InitStop ==
    /\ NoRun
    /\ net = <<>> /\ tasks = [pid \in NetPids |-> "gone"] /\ calls = <<>>
    /\ \E svc \in Services, plat \in Platforms, alive \in SUBSET TreeNodes :
          /\ "root" \in alive
          /\ \E deaf \in SUBSET alive :
                tree = [svc |-> svc, plat |-> plat, alive |-> alive, deaf |-> deaf,
                        handle |-> TRUE]
    /\ stops = <<>>
    /\ host = NoHost
    /\ pipe = NoPipe

\* One call of a stop function on the tree.
StopCalled(fn, t) ==
    /\ Len(stops) < MaxStops
    /\ tree' = t
    /\ stops' = Append(stops, fn)
    /\ UNCHANGED <<runVars, net, tasks, calls, host, pipe>>
CallStopService ==
    tree.svc \in Services /\ StopCalled("stop_service", SmStopService(tree))
CallOrchStopServer ==
    tree.svc \in {"ui", "api"} /\ StopCalled("cleanup", OrchStopServer(tree))
CallOllamaServerStop ==
    tree.svc = "ollama" /\ StopCalled("OllamaServer.stop", OllamaServerStop(tree))

NextStop == CallStopService \/ CallOrchStopServer \/ CallOllamaServerStop

SpecStop == InitStop /\ [][NextStop]_vars

(***************************************************************************)
(* The output pipe of a spawned child.                                     *)
(* The start functions spawn their child with stdout=PIPE and stderr=PIPE  *)
(* and then poll for its health. The child writes its output to the pipe;  *)
(* a write to a full pipe blocks until the parent reads.                   *)
(***************************************************************************)
WaitLoops == {"UIServer.start", "start_ui", "start_api_server"}

\* The child's next write would block.
PipeFull(q) == q.written < q.need /\ q.fill = PipeCapacity

InitPipe ==
    /\ NoRun
    /\ net = <<>> /\ tasks = [pid \in NetPids |-> "gone"] /\ calls = <<>>
    /\ tree = NoTree /\ stops = <<>> /\ host = NoHost
    /\ \E f \in WaitLoops, n \in 0..MaxOutput, l \in 0..MaxOutput :
          /\ l <= n
          /\ pipe = [fn |-> f, need |-> n, listenAt |-> l, written |-> 0, fill |-> 0,
                     child |-> "starting", parent |-> "polling", polls |-> 0]

PipeStep(q) == pipe' = q /\ UNCHANGED <<runVars, net, tasks, calls, tree, stops, host>>

\* The child writes a chunk of output to its stdout.
ChildWrites ==
    /\ pipe.child \in {"starting", "listening"}
    /\ pipe.written < pipe.need /\ pipe.fill < PipeCapacity
    /\ PipeStep([pipe EXCEPT !.written = @ + 1, !.fill = @ + 1])

\* The child has written what it writes during startup and listens on its port.
ChildListens ==
    /\ pipe.child = "starting" /\ pipe.written >= pipe.listenAt
    /\ PipeStep([pipe EXCEPT !.child = "listening"])

\* One round of the wait loop of a start function: the health probe, the
\* sleep; nothing is read from the pipe. When the window ends, UIServer.start
\* and start_ui call communicate(), start_api_server returns False.
ParentPolls ==
    /\ pipe.parent = "polling"
    /\ PipeStep(IF pipe.child = "listening" THEN [pipe EXCEPT !.parent = "ready"]
                ELSE IF pipe.polls + 1 < PollBudget THEN [pipe EXCEPT !.polls = @ + 1]
                ELSE IF pipe.fn = "start_api_server" THEN [pipe EXCEPT !.parent = "failed"]
                ELSE [pipe EXCEPT !.parent = "communicate"])

\* communicate() reads the pipe until the child closes it.
ParentCommunicates ==
    /\ pipe.parent = "communicate" /\ pipe.fill > 0
    /\ PipeStep([pipe EXCEPT !.fill = 0])

NextPipe == ChildWrites \/ ChildListens \/ ParentPolls \/ ParentCommunicates

SpecPipe == InitPipe /\ [][NextPipe]_vars

(***************************************************************************)
(* Properties.                                                             *)
(***************************************************************************)
\* Position of a service in the dependency order.
Pos(s) == CHOOSE i \in 1..Len(StartOrder) : StartOrder[i] = s
\* A process of service s is running, with or without a handle held by the run.
Running(w, s) == w.proc[s] = "up" \/ w.orphans[s] > 0
\* A process for service s is spawned by this step.
SpawnedNow(s) ==
    \/ os.proc[s] # "up" /\ os'.proc[s] = "up"
    \/ os'.orphans[s] > os.orphans[s]
\* Service s has been reported healthy: by its gate, or as the Ollama instance
\* that was answering before the run.
ReportedHealthy(s) ==
    \/ gate[s] = "HEALTHY"
    \/ s = "ollama" /\ (os.occ[OllamaPort] = "ollama_ext" \/ entry = "sysinit")
GateFailed == \E s \in Services : gate[s] \in {"PROCESS_DEAD", "TIMEOUT"}

\* C1: in every entry point a service is spawned only when every service
\* earlier in the dependency order has been reported HEALTHY.
C1_HealthGatedStart ==
    [][\A s \in Services :
          SpawnedNow(s) => \A t \in Services : Pos(t) < Pos(s) => ReportedHealthy(t)]_vars

\* C2: every shutdown call invokes termination in reverse start order: of two
\* started services it terminates, the one started later comes first.
StartedAt(s) == CHOOSE i \in 1..Len(spawnLog) : spawnLog[i] = s
ReverseOfStart(seg) ==
    \A i, j \in 1..Len(seg) :
        (i < j /\ seg[i].svc \in SeqToSet(spawnLog) /\ seg[j].svc \in SeqToSet(spawnLog))
            => StartedAt(seg[i].svc) > StartedAt(seg[j].svc)
C2_ReverseOrderShutdown ==
    [][ReverseOfStart(SubSeq(termLog', Len(termLog) + 1, Len(termLog')))]_vars

\* C3: once a start operation has returned failure after a health gate ended
\* in PROCESS_DEAD or TIMEOUT, no process spawned by the run is running.
C3_FailedStartLeavesNothing ==
    (result = "false" /\ GateFailed) => \A s \in Services : ~Running(os, s)

\* C4: when initialize() has returned true, the API and the UI passed their
\* gates and their processes are running.
C4_TrueMeansReady ==
    (entry = "orch" /\ result = "true") =>
        \A s \in {"api", "ui"} : gate[s] = "HEALTHY" /\ os.proc[s] = "up"

\* C5: initialize() returns true only when the four steps succeeded in
\* order; after a step returned false or raised, no later step is invoked
\* and initialize(), when it returns, returns false.
StepFailed == \E n \in StepNames : steps[n] \in {"false", "raise"}
C5_NoPartialSuccess ==
    entry = "orch" =>
        /\ result = "true" => \A n \in StepNames : steps[n] = "ok"
        /\ \A i, j \in 1..Len(StepOrder) :
              (i < j /\ steps[StepOrder[j]] # "none") => steps[StepOrder[i]] = "ok"
        /\ StepFailed => /\ pc \in {"t_cleanup", "t_done", "t_aborted", "t_cancelled"}
                         /\ result # "true"
                         /\ pc = "t_done" => result = "false"
C5_Witness ==
    /\ entry = "orch" /\ pc = "t_done" /\ result = "false"
    /\ steps["Dependencies"] = "ok" /\ steps["Ollama"] = "ok"
    /\ steps["API Server"] = "false" /\ steps["UI Server"] = "none"

\* C6: a cleanup() call made when an earlier cleanup() has completed and
\* neither the API nor the UI runs invokes no termination, sends no signal
\* and changes nothing in the operating system.
Stopped == cleanups >= 1 /\ ~Running(os, "api") /\ ~Running(os, "ui")
C6_CleanupIdempotent ==
    [][(entry = "orch" /\ Stopped /\ cleanups' > cleanups)
          => (termLog' = termLog /\ sigLog' = sigLog /\ os' = os)]_vars

\* C7: after a shutdown signal that arrived during the health wait of a
\* service, the next service is never spawned, and when main() has finished
\* no service spawned by the run is running.
WaitingOn(p) ==
    CASE p = "t_ollama_wait" -> "ollama"
      [] p = "t_api_wait" -> "api"
      [] p \in {"t_ui_inner", "t_ui_wait"} -> "ui"
      [] OTHER -> "none"
C7_SignalDuringHealthWait ==
    (entry = "orch" /\ WaitingOn(signalled) # "none") =>
        /\ \A s \in SeqToSet(spawnLog) : Pos(s) <= Pos(WaitingOn(signalled))
        /\ mpc = "m_exit" => \A s \in Services : ~Running(os, s)

\* C8: every port a service process of the run is bound to when cleanup()
\* starts is among the ports that cleanup() sweeps.
C8_BoundPortsSwept ==
    [][(entry = "orch" /\ cleanups' > cleanups)
          => \A s \in Services : os.bound[s] # NoPort => os.bound[s] \in swept']_vars

\* C9: when no candidate port of the API (of the UI) is available, the error
\* names every attempted port, the service is never spawned and initialize()
\* returns false.
C9_PortUnavailable ==
    /\ (entry = "orch" /\ lastError.msg = "No available ports found") =>
          /\ lastError.ports = {cfg.api} \cup SeqToSet(ApiFallbackPorts)
          /\ "api" \notin SeqToSet(spawnLog)
          /\ pc = "t_done" => result = "false"
    /\ (entry = "orch" /\ lastError.msg = "No available ports found for UI server") =>
          /\ lastError.ports = {cfg.ui} \cup SeqToSet(UiFallbackPorts)
          /\ "ui" \notin SeqToSet(spawnLog)
          /\ pc = "t_done" => result = "false"

\* C10: when the desired API port is held by a process of another program
\* that ignores a graceful stop and exits on a forced kill, port resolution
\* frees the port and keeps it as the API port.
YieldsToForceOnly(o) == o \in ForeignKinds /\ ~DiesOnGraceful(o) /\ DiesOnForce(o)
ResolvesApiPort == entry = "orch" /\ pc = "t_api_ports" /\ pc' \in {"t_api_start", "t_cleanup"}
LastCall == calls'[Len(calls')]
OwnsLocal(t, pid, p) == \E i \in 1..Len(t) : t[i].pid = pid /\ t[i].local = p
C11_KillsOnlyPortOwner ==
    [][(calls' # calls /\ LastCall.victim # 0)
          => OwnsLocal(net, LastCall.victim, LastCall.port)]_vars

\* C12: a port-reclaiming function called on a port that is free, any number
\* of times in a row, returns true and terminates no process.
KillFunctions == {"_kill_process_on_port", "kill_process_on_port"}
C12_FreePortIdempotent ==
    [][(calls' # calls /\ LastCall.fn \in KillFunctions /\ NetBindSucceeds(net, LastCall.port))
          => (LastCall.ret = TRUE /\ LastCall.victim = 0 /\ net' = net /\ tasks' = tasks)]_vars

\* C13: a health wait that no probe has passed yet ends in TIMEOUT only on a
\* process that is alive: when the process has exited during the wait, the
\* wait ends with the process-died outcome.
C13_DeadProcessIsNotTimeout ==
    [][\A s \in Services :
          (gate'[s] = "TIMEOUT" /\ gate[s] # "TIMEOUT" /\ pc # "t_ui_wait")
              => os'.proc[s] = "up"]_vars

\* C14: whatever the child processes do, every start operation comes to an
\* end: the run reaches READY or has returned, failed or shut down.
StartSettled ==
    CASE entry = "orch" -> pc \in {"t_ready", "t_done", "t_aborted", "t_cancelled"}
      [] entry = "sm" -> pc \in {"s_ready", "s_done", "s_closed"}
      [] entry = "launcher" -> pc \in {"l_monitor", "l_done", "l_exit"}
      [] entry = "sysinit" -> \/ pc = "i_done"
                              \/ gate["api"] = "serving" /\ gate["ui"] = "HEALTHY"
      [] OTHER -> TRUE
C14_StartupTerminates == <>StartSettled

\* C15: a port-availability check answers "available" exactly when a bind on
\* the port would succeed at the time of the call: a free port is reported
\* available, a port another socket is bound to (listening or not) is not.
ReportsAvailable(c) ==
    IF c.fn = "is_port_in_use" THEN c.ret = FALSE ELSE c.ret = TRUE
C15_AvailableIffBindSucceeds ==
    [][(calls' # calls /\ LastCall.fn \in {"_check_port", "is_port_in_use"})
          => (ReportsAvailable(LastCall) <=> NetBindSucceeds(net, LastCall.port))]_vars

\* C16: one call of the orchestrator's cleanup() invokes stop exactly once on
\* every service the run has started: the UI server, the API server and the
\* Ollama server.
StopsInCall(s) ==
    Cardinality({i \in (Len(termLog) + 1)..Len(termLog') : termLog'[i].svc = s})
C16_CleanupStopsEachOnce ==
    [][(entry = "orch" /\ cleanups' = cleanups + 1)
          => \A s \in SeqToSet(spawnLog) : StopsInCall(s) = 1]_vars

\* C17: the API port handed to the UI process when it is spawned is the port
\* the API server of the run is listening on, fallback ports included.
ApiListensOn(w) == {p \in Ports : w.occ[p] = "api"}
UiSpawnedBesideApi ==
    /\ entry \in {"orch", "sm", "sysinit"}
    /\ os.proc["ui"] # "up" /\ os'.proc["ui"] = "up"
    /\ ApiListensOn(os') # {}
C17_UiWiredToApiPort ==
    [][UiSpawnedBesideApi => objs'.uiApiPort \in ApiListensOn(os')]_vars

\* C18: a start of the UI server that fails before a process exists (the
\* application file is missing) ends the step as failed at once: no further
\* attempt is counted and the run goes to its cleanup.
UiSpawnFailed ==
    /\ entry = "orch" /\ pc = "t_ui_start"
    /\ os' = os /\ gate' = gate
    /\ attempt' # attempt \/ steps' # steps
C18_SpawnFailureIsFatal ==
    [][UiSpawnFailed => (attempt' = attempt /\ steps'["UI Server"] = "false"
                           /\ pc' = "t_cleanup")]_vars

\* C19: the lifecycle of a service only moves forward: a service whose start
\* has failed (timed out, found dead, failed to spawn) or whose process has
\* been stopped is never spawning, running or healthy again in the same run.
EndedGates == {"TIMEOUT", "PROCESS_DEAD", "FAILED"}
LiveGates == {"waiting", "HEALTHY", "serving"}
ServiceEnded(s) == gate[s] \in EndedGates \/ os.proc[s] = "dead"
ServiceLiveNext(s) == os'.proc[s] = "up" /\ gate'[s] \in LiveGates
C19_LifecycleMonotone ==
    [][\A s \in Services : ServiceEnded(s) => ~ServiceLiveNext(s)]_vars

\* C20: a run of the orchestrator goes through its phases in order: the ports
\* of the services are resolved before any service is spawned, READY is entered
\* only with the API and the UI HEALTHY, and nothing is spawned once the
\* shutdown has begun.
ResolvesPortNow ==
    entry = "orch" /\ pc \in {"t_api_ports", "t_ui_ports"} /\ pc' # pc /\ mpc' = mpc
EntersReady == entry = "orch" /\ pc # "t_ready" /\ pc' = "t_ready"
ShuttingDown == entry = "orch" /\ mpc \notin {"m_run", "m_forever"}
C20_RunPhasesInOrder ==
    [][/\ ResolvesPortNow => spawnLog = <<>>
       /\ EntersReady => (gate'["api"] = "HEALTHY" /\ gate'["ui"] = "HEALTHY")
       /\ ShuttingDown => \A s \in Services : ~SpawnedNow(s)]_vars

\* C21: port resolution picks the first securable port of the sequence
\* <<desired port, fallback ports in declared order>>: the chosen port can be
\* bound, every candidate before it is still occupied after the resolution,
\* and a desired port that was free is the one chosen.
FirstSecurable(cands, chosen) ==
    /\ \E i \in 1..Len(cands) :
          /\ cands[i] = chosen
          /\ os'.occ[chosen] = "free"
          /\ \A j \in 1..(i - 1) : os'.occ[cands[j]] # "free"
    /\ os.occ[cands[1]] = "free" => chosen = cands[1]
ResolvedPort(at, next) == entry = "orch" /\ pc = at /\ pc' = next /\ mpc' = mpc
C21_FirstSecurablePort ==
    [][/\ ResolvedPort("t_api_ports", "t_api_start")
            => FirstSecurable(<<cfg.api>> \o ApiFallbackPorts, cfg'.api)
       /\ ResolvedPort("t_ui_ports", "t_ui_start")
            => FirstSecurable(<<cfg.ui>> \o UiFallbackPorts, cfg'.ui)]_vars
\* A resolution that went past a fallback port found occupied.
C21_Witness ==
    /\ entry = "orch" /\ pc = "t_api_start"
    /\ cfg.api = ApiFallbackPorts[2]
    /\ os.occ[DefaultApiPort] # "free" /\ os.occ[ApiFallbackPorts[1]] # "free"

\* C22: a service has one health-wait window in a run: when the window expires
\* the orchestrator's chain fails at once (the run goes to its cleanup, or is
\* held by the expired UI start), and no second window is opened for the service.
WindowExpires(s) == gate[s] # "TIMEOUT" /\ gate'[s] = "TIMEOUT"
C22_OneHealthWindow ==
    [][\A s \in Services :
          /\ (entry = "orch" /\ WindowExpires(s)) => pc' \in {"t_cleanup", "t_ui_blocked"}
          /\ gate[s] = "TIMEOUT" => gate'[s] # "waiting"]_vars

\* C23: a shutdown call sweeps the ports of the run after it has stopped the
\* handles: every such port that is still occupied when the call returns has
\* had a termination attempt made on its owner during the call, and no signal
\* of the sweep is sent before the last signal to a handle.
SweepPortsOfRun ==
    IF entry = "sm" THEN SeqToSet(SmPorts) ELSE {cfg.api, cfg.ui}
SigsOfCall == SubSeq(sigLog', Len(sigLog) + 1, Len(sigLog'))
\* A shutdown call of a run whose configuration, and so its ports, is loaded.
ShutdownCall ==
    /\ entry = "sm" \/ (entry = "orch" /\ sysInit = "ok")
    /\ cleanups' = cleanups + 1
C23_SweepAfterHandles ==
    [][ShutdownCall =>
          /\ \A p \in SweepPortsOfRun :
                os'.occ[p] # "free" => \E i \in 1..Len(SigsOfCall) : SigsOfCall[i].port = p
          /\ \A i, j \in 1..Len(SigsOfCall) :
                (i < j /\ SigsOfCall[j].port = NoPort /\ SigsOfCall[j].tgt \in Services)
                    => SigsOfCall[i].port = NoPort]_vars

\* C24: termination escalates from graceful to forced: every forced kill (of a
\* process or of its whole tree) was preceded by a graceful terminate signal to
\* the same target, for every service and every port.
ForcedKinds == {"kill", "treekill"}
GracefulSentBefore(i) ==
    \E j \in 1..(i - 1) :
        /\ sigLog[j].tgt = sigLog[i].tgt /\ sigLog[j].port = sigLog[i].port
        /\ sigLog[j].kind = "term"
C24_GracefulBeforeForced ==
    \A i \in 1..Len(sigLog) : sigLog[i].kind \in ForcedKinds => GracefulSentBefore(i)

\* C25: when a stop function called on a running service has returned, neither
\* the service's process nor any process it spawned transitively is alive.
C25_StopLeavesNoProcess ==
    [][stops' # stops => tree'.alive = {}]_vars

\* C26: a port-reclaiming function returns true only when the port has been
\* found free after its last termination attempt: no socket listens on the
\* port when the call has returned true.
ListenedOn(t, p) == \E i \in 1..Len(t) : t[i].local = p /\ t[i].state = "LISTENING"
C26_TrueOnlyWhenFree ==
    [][(calls' # calls /\ LastCall.fn \in KillFunctions /\ LastCall.ret = TRUE)
          => ~ListenedOn(net', LastCall.port)]_vars

\* C27: _kill_process_on_port repeats its sequence, owner lookup included, up
\* to KillAttempts times and gives up only when the last attempt leaves the
\* port occupied: when every process on the lines of the port can be stopped
\* and there are no more of them than attempts, the call returns true.
Stoppable(t, k, p) ==
    \A i \in 1..Len(t) : LineMatches(t[i], p) => k[t[i].pid] \in {"python", "other"}
OwnersOf(t, p) == {t[i].pid : i \in {j \in 1..Len(t) : LineMatches(t[j], p)}}
C27_EachAttemptResolvesOwner ==
    [][(/\ calls' # calls /\ LastCall.fn = "_kill_process_on_port"
        /\ Stoppable(net, tasks, LastCall.port)
        /\ Cardinality(OwnersOf(net, LastCall.port)) <= KillAttempts)
          => LastCall.ret = TRUE]_vars

\* C28: a port held by a zombie binding is put through the zombie recovery
\* ladder before it is given up: a port resolution that finds the desired API
\* port held by a zombie runs the ladder on that port.
ZombieAtResolution ==
    /\ entry = "orch" /\ pc = "t_api_ports" /\ pc' # pc /\ mpc' = mpc
    /\ GetProcessOnPort(os, cfg.api) = "ZOMBIE"
C28_ZombieLadderAtResolution ==
    [][ZombieAtResolution =>
          \E i \in 1..Len(SigsOfCall) :
              SigsOfCall[i].kind = "ladder" /\ SigsOfCall[i].port = cfg.api]_vars

\* C29: zombie recovery does not leave the port in the excluded port range of
\* the network stack: when _kill_process_on_port has run the ladder on a port,
\* the port is not excluded afterwards.
LadderRan ==
    /\ calls' # calls /\ LastCall.fn = "_kill_process_on_port"
    /\ NetGetProcessOnPort(net, tasks, LastCall.port).name = "ZOMBIE"
C29_PortNotLeftExcluded ==
    [][LadderRan => LastCall.port \notin host'.excluded]_vars

\* C30: an owner lookup that cannot be performed does not make an occupied
\* port count as free: _kill_process_on_port does not return true for a port
\* a socket listens on when the lookup failed.
C30_FailedLookupIsNotFree ==
    [][(/\ calls' # calls /\ LastCall.fn = "_kill_process_on_port"
        /\ host.lookup = "failed" /\ ListenedOn(net, LastCall.port))
          => LastCall.ret = FALSE]_vars

\* C31: the port-availability check has no effect on processes: a call of
\* _check_port terminates no process and leaves the connection table and the
\* process table as they were.
C31_CheckPortStopsNothing ==
    [][(calls' # calls /\ LastCall.fn = "_check_port")
          => (LastCall.victim = 0 /\ net' = net /\ tasks' = tasks)]_vars

\* C32: the port recorded in the configuration for a service is the port the
\* service's process listens on: when the API (the UI) of a run of the
\* orchestrator has been reported HEALTHY and its process, the only one the
\* run spawned for it, is running, the process is bound to config.ports.api
\* (config.ports.ui).
ConfigPort(s) == IF s = "api" THEN cfg.api ELSE cfg.ui
C32_ConfigPortIsBoundPort ==
    entry = "orch" =>
        \A s \in {"api", "ui"} :
            (gate[s] = "HEALTHY" /\ os.proc[s] = "up" /\ os.orphans[s] = 0)
                => os.bound[s] = ConfigPort(s)

\* C33: a handle is dropped only once its process has terminated: when a stop
\* function has been called and the handle is gone, the process the handle
\* referred to is not alive.
C33_HandleDroppedWhenDead ==
    (stops # <<>> /\ ~tree.handle) => "root" \notin tree.alive

\* C34: the output of a spawned child is drained while the start function
\* polls it and while the run holds READY: the child is never blocked on a
\* write to a full pipe in either phase.
C34_ChildNeverBlockedOnPipe ==
    pipe.parent \in {"polling", "ready"} => ~PipeFull(pipe)

\* C35: a shutdown terminates only processes tied to the run: no process of
\* another application is terminated because of its name or command line, and
\* no Ollama instance that was running before the run.
C35_ShutdownKillsOnlyOwn ==
    [][cleanups' > cleanups =>
          /\ os'.others = os.others
          /\ \A p \in Ports : os.occ[p] = "ollama_ext" => os'.occ[p] = "ollama_ext"]_vars

\* C36: initialize() returns false only through cleanup(): the step in which
\* it returns false completes a cleanup() call, and the failure (a step that
\* returned false or raised, or a system initialisation that raised) was
\* recorded before that call.
ReturnsFalse == entry = "orch" /\ result # "false" /\ result' = "false"
C36_FalseOnlyAfterCleanup ==
    [][ReturnsFalse => (cleanups' = cleanups + 1 /\ (StepFailed \/ sysInit = "failed"))]_vars
\* initialize() has returned false after a step raised, with one cleanup() made.
C36_Witness ==
    /\ entry = "orch" /\ pc = "t_done" /\ result = "false"
    /\ steps["UI Server"] = "raise" /\ cleanups = 1

\* C37: cleanup() attempts every teardown step whatever state the run is in,
\* also before system initialisation has completed: when a cleanup() call of
\* the orchestrator has returned, no temp/streamlit_* directory is left.
C37_CleanupRemovesTempDirs ==
    [][(entry = "orch" /\ cleanups' = cleanups + 1) => ~os'.temp]_vars

\* C38: a startup that fails leaves the persisted port configuration as it
\* was: when initialize() has returned false, config.ports (and the saved
\* config.json) still name the ports the run started with.
C38_FailedRunKeepsPortConfig ==
    (entry = "orch" /\ result = "false") =>
        cfg = [api |-> DefaultApiPort, ui |-> DefaultUiPort]

MonitoredExit ==
    entry = "launcher" /\ pc = "l_shutdown" /\ result = "true" /\ signalled = ""
EveryHandleAttempted ==
    \A s \in SeqToSet(handles) : \E i \in DOMAIN termLog : termLog[i].svc = s
C40_ExitLeadsToFullShutdown ==
    MonitoredExit ~> (pc = "l_exit" /\ EveryHandleAttempted)
====
